---- MODULE Spec2Model ----
(***************************************************************************)
(* Model of the workflow execution queue (lib/workflows/workflow-queue),   *)
(* the chat trigger route (api/workflows/[id]/chat) and the node-cron      *)
(* Scheduler (lib/scheduler), the Twitter usage tracking                   *)
(* (api/twitter/usage, lib/twitter-usage) and the OpenAI module            *)
(* (modules/ai/openai) of social-cat.                                      *)
(***************************************************************************)
EXTENDS Integers, Sequences, FiniteSets, TLC

VARIABLES
  REDIS_URL,      \* process.env.REDIS_URL is set
  initCalled,     \* initializeWorkflowQueue has been called
  queues,         \* names in the `queues` map of lib/queue
  worker,         \* a worker for the workflow queue exists
  wfJobs,         \* jobs of the workflow queue, in creation order
  calls,          \* log of queueWorkflowExecution calls
  chats,          \* log of POST /api/workflows/[id]/chat requests
  WORKFLOW_CONCURRENCY, \* process.env.WORKFLOW_CONCURRENCY, <<>> when unset
  NODE_ENV,       \* process.env.NODE_ENV
  effConcurrency, \* the concurrency initializeWorkflowQueue computed
  stats,          \* what the last getWorkflowQueueStats call returned
  requested,      \* history: options.priority each job was enqueued with
  effects,        \* history: how often each step of each job was executed
  jobs,           \* Scheduler.jobs : name -> index into tasks
  tasks,          \* every ScheduledTask ever created by cron.schedule
  isInitialized,  \* Scheduler.isInitialized
  lastCall,       \* the most recent Scheduler method call and its argument
  halted,         \* history: running jobs stopJob stopped, not restarted by name
  usageRows,      \* rows of the twitter_usage table, in insertion order
  uniqueWindowType, \* the table has a unique index on windowType
  trackers,       \* the track operations in progress, by slot
  clock,          \* Date.now(), in ticks of seven and a half minutes
  tracked,        \* history: type and time of every track operation
  lastGet,        \* what the last GET /api/twitter/usage answered
  limiterQueue,   \* openaiRateLimiter: the calls it holds back, oldest first
  limiterRunning, \* openaiRateLimiter: the calls it has admitted, unfinished
  limiterReservoir, \* openaiRateLimiter: starts left in the current minute
  breaker,        \* createCompletionWithBreaker: circuit state, failures
  aiStarted,      \* calls of exported OpenAI functions made so far
  lastRequest,    \* the last call that reached the API or was rejected
  aiHist,         \* history: limiter starts this minute, failures in a row
  vrun,           \* scripts/validate-workflow.ts: its input and how it ended
  dedup,          \* the deduplication workflow: its table and its executions
  fix,            \* the auto-fixer: a step's inputs before and after its passes
  hook,           \* a webhook workflow: its secret and the POSTs it answered
  exec,           \* one workflow execution: its steps, position and results
  ctl,            \* POST /api/jobs/control: the last request and its answer
  cron,           \* the runs of the cron callbacks and the job_logs table
  bull,           \* initializeBullMQJobs: its position, the queue's state
  api             \* the settings, setup and usage routes: the last request,
                  \* the app_settings rows and the saved credentials

histVars == <<requested, effects>>
queueVars == <<REDIS_URL, initCalled, queues, worker, wfJobs, calls, chats,
               WORKFLOW_CONCURRENCY, NODE_ENV, effConcurrency, stats, histVars>>
schedVars == <<jobs, tasks, isInitialized, lastCall>>
schedHist == <<halted>>
usageVars == <<usageRows, uniqueWindowType, trackers, clock, tracked, lastGet>>
aiVars == <<limiterQueue, limiterRunning, limiterReservoir, breaker,
            aiStarted, lastRequest, aiHist>>
toolVars == <<vrun, fix>>
flowVars == <<dedup, hook, exec>>
appVars == <<ctl, cron, bull, api>>
nonQueueVars ==
  <<schedVars, schedHist, usageVars, aiVars, toolVars, flowVars, appVars>>
nonSchedVars ==
  <<queueVars, usageVars, aiVars, toolVars, flowVars, appVars>>
nonUsageVars ==
  <<queueVars, schedVars, schedHist, aiVars, toolVars, flowVars, appVars>>
nonAiVars ==
  <<queueVars, schedVars, schedHist, usageVars, toolVars, flowVars, appVars>>
nonToolVars ==
  <<queueVars, schedVars, schedHist, usageVars, aiVars, flowVars, appVars>>
nonFlowVars ==
  <<queueVars, schedVars, schedHist, usageVars, aiVars, toolVars, appVars>>
nonAppVars ==
  <<queueVars, schedVars, schedHist, usageVars, aiVars, toolVars, flowVars>>
nonSchedAppVars ==
  <<queueVars, schedHist, usageVars, aiVars, toolVars, flowVars>>
vars == <<REDIS_URL, initCalled, queues, worker, wfJobs, calls, chats,
          WORKFLOW_CONCURRENCY, NODE_ENV, effConcurrency, stats,
          requested, effects,
          jobs, tasks, isInitialized, lastCall, halted,
          usageRows, uniqueWindowType, trackers, clock, tracked, lastGet,
          limiterQueue, limiterRunning, limiterReservoir, breaker,
          aiStarted, lastRequest, aiHist,
          vrun, dedup, fix, hook, exec, ctl, cron, bull, api>>

----------------------------------------------------------------------------
(* Bounds *)

MaxCalls == 2   \* queueWorkflowExecution calls in a run
MaxChats == 1   \* chat requests in a run
MaxTasks == 3   \* cron tasks created in a run
MaxTracks == 2  \* Twitter track operations in a run
MaxClock == 3   \* ticks of the clock in a run
MaxAiCalls == 6 \* calls of OpenAI functions in a run
MaxSteps == 2   \* top-level steps of a workflow document
MaxHooks == 2   \* webhook requests in a run
MaxRuns == 2    \* runs of cron callbacks in a run
MaxHourClock == 9  \* ticks of the clock in a run of more than an hour

----------------------------------------------------------------------------
(* Workflow queue *)

WORKFLOW_QUEUE_NAME == "workflows-execution"

TriggerTypes ==
  {"manual", "cron", "webhook", "telegram", "discord", "chat", "chat-input",
   "gmail", "outlook"}

\* The trigger types the model's callers pass
TriggerInputs == {"manual", "webhook"}

\* one retry more than configured
attemptsFourMutant == 3 + 1

\* attempts: 3 of defaultJobOptions
attempts == 3

\* options.priority as passed by a caller; Undefined stands for an absent one
Undefined == -1
PriorityInputs == {Undefined, 0, 1}
DelayInputs == {Undefined, 1}

\* priority: options?.priority || 5
EffectivePriority(p) == IF p = Undefined \/ p = 0 THEN 5 ELSE p

\* What executeWorkflow hands back: a result with success, error, errorStep,
\* or an exception.
NoStep == ""
OkResult == [kind |-> "result", success |-> TRUE, error |-> "", errorStep |-> NoStep]
FailResult(step) ==
  [kind |-> "result", success |-> FALSE, error |-> "boom", errorStep |-> step]
Thrown == [kind |-> "throw", success |-> FALSE, error |-> "crash", errorStep |-> NoStep]
ExecOutcomes == {OkResult, FailResult("step2"), Thrown}

NoResult == [kind |-> "none", success |-> FALSE, error |-> "", errorStep |-> NoStep]

NoReturn == [jobId |-> "none", queued |-> FALSE]

\* The error the worker processor throws for an attempt, NoError if it returns
NoError == [message |-> "none", step |-> NoStep]

ProcessorErrorNoThrowMutant(res) ==
  IF res.kind = "throw" THEN [message |-> res.error, step |-> NoStep]
  ELSE NoError

ProcessorErrorNoStepMutant(res) ==
  IF res.kind = "throw" THEN [message |-> res.error, step |-> NoStep]
  ELSE IF ~res.success
       THEN [message |-> res.error, step |-> NoStep]
       ELSE NoError

ProcessorError(res) ==
  IF res.kind = "throw" THEN [message |-> res.error, step |-> NoStep]
  ELSE IF ~res.success
       THEN [message |-> res.error, step |-> res.errorStep]
       ELSE NoError

\* The steps of the workflow a job executes, in document order
Steps == <<"step1", "step2", "step3">>
StepSet == {Steps[i] : i \in DOMAIN Steps}
StepIndex(s) == CHOOSE i \in DOMAIN Steps : Steps[i] = s

\* The steps one execution starts: every step when it succeeds, the steps up
\* to the failing one when a step fails, none when the executor throws
\* before its first step
StepsStarted(res) ==
  IF res.kind # "result" THEN {}
  ELSE IF res.success THEN StepSet
  ELSE IF res.errorStep = NoStep THEN {}
  ELSE {Steps[i] : i \in 1..StepIndex(res.errorStep)}

\* executeWorkflow(workflowId, userId, triggerType, triggerData): the call
\* carries nothing of an earlier attempt, the execution starts at step 1
Executed(job, res) ==
  [job EXCEPT !.lastResult = res,
              !.lastStarted = StepsStarted(res)]

\* backoff: { type: 'exponential', delay: 10000 }
backoffDelay == 10000

\* The delay (ms) before the retry that follows failed attempt number made
BackoffDelay(made) == backoffDelay * 2^(made - 1)

\* BullMQ's move of a job whose attempt has ended
AfterAttempt(job, res, err) ==
  LET made == job.attemptsMade + 1 IN
  IF err = NoError
  THEN [job EXCEPT !.state = "completed", !.attemptsMade = made,
                   !.runs = Append(@, res.success)]
  ELSE [job EXCEPT !.state = IF made < attempts THEN "delayed" ELSE "failed",
                   !.attemptsMade = made,
                   !.runs = Append(@, res.success),
                   !.failedReason = err,
                   !.retryDelay = IF made < attempts THEN BackoffDelay(made)
                                  ELSE 0]

\* nextRetryIn of the 'failed' listener, in seconds
NextRetryIn(attemptsMade) == 2^attemptsMade * 10

\* worker.on('failed'): logs the retry while job.attemptsMade < 3; the job
\* it is handed has the failed attempt counted in attemptsMade
OnFailed(job) ==
  IF job.attemptsMade < 3
  THEN [job EXCEPT !.nextRetryIn = NextRetryIn(job.attemptsMade)]
  ELSE [job EXCEPT !.nextRetryIn = 0]

\* Not-a-number, as parseInt returns it
NaN == -1000000

\* Values that || passes over: 0, NaN, undefined
Truthy(x) == x \notin {0, NaN, Undefined}

Digit(c) ==
  CASE c = "0" -> 0 [] c = "1" -> 1 [] c = "2" -> 2 [] c = "3" -> 3
    [] c = "4" -> 4 [] c = "5" -> 5 [] c = "6" -> 6 [] c = "7" -> 7
    [] c = "8" -> 8 [] c = "9" -> 9 [] OTHER -> -1

RECURSIVE ParseDigits(_, _)
\* the value of the leading digits of str, after the digits read so far
ParseDigits(str, acc) ==
  IF str = <<>> \/ Digit(Head(str)) < 0 THEN acc
  ELSE ParseDigits(Tail(str), 10 * acc + Digit(Head(str)))

\* parseInt(str, 10): the leading decimal digits, NaN when there are none
ParseInt(str) ==
  IF str = <<>> THEN NaN
  ELSE IF Head(str) = "-"
       THEN IF Tail(str) = <<>> \/ Digit(Head(Tail(str))) < 0 THEN NaN
            ELSE 0 - ParseDigits(Tail(str), 0)
       ELSE IF Digit(Head(str)) < 0 THEN NaN
            ELSE ParseDigits(str, 0)

\* parseInt(process.env.WORKFLOW_CONCURRENCY ||
\*          (process.env.NODE_ENV === 'production' ? '100' : '20'), 10)
DefaultConcurrency(envStr, nodeEnv) ==
  ParseInt(IF envStr # <<>> THEN envStr
           ELSE IF nodeEnv = "production" THEN <<"1", "0", "0">>
           ELSE <<"2", "0">>)

\* options?.concurrency || defaultConcurrency
EffectiveConcurrency(opt, envStr, nodeEnv) ==
  IF Truthy(opt) THEN opt ELSE DefaultConcurrency(envStr, nodeEnv)

\* A worker is only created with a finite concurrency of at least 1
ValidWorkerConcurrency(c) == c # NaN /\ c >= 1

\* options.concurrency as the process passes it at startup
concurrency == 2

ActiveCount == Cardinality({j \in DOMAIN wfJobs : wfJobs[j].state = "active"})

InitializeWorkflowQueue(outcome, optConcurrency) ==
  /\ ~initCalled
  /\ initCalled' = TRUE
  /\ effConcurrency' =
       EffectiveConcurrency(optConcurrency, WORKFLOW_CONCURRENCY, NODE_ENV)
  /\ IF ~REDIS_URL
     THEN UNCHANGED <<queues, worker>>
     ELSE CASE outcome = "createQueueThrows" ->
                 UNCHANGED <<queues, worker>>
            [] outcome = "ok" /\ ValidWorkerConcurrency(effConcurrency') ->
                 /\ queues' = queues \cup {WORKFLOW_QUEUE_NAME}
                 /\ worker' = TRUE
            [] OTHER ->
                 /\ queues' = queues \cup {WORKFLOW_QUEUE_NAME}
                 /\ UNCHANGED worker
  /\ UNCHANGED <<REDIS_URL, wfJobs, calls, chats>>
  /\ UNCHANGED <<WORKFLOW_CONCURRENCY, NODE_ENV, stats, histVars>>
  /\ UNCHANGED nonQueueVars

\* A call record: what the call did and what the caller got
CallRecord(trigger, mode, outcome, ret, execs, res, added, logged) ==
  [triggerType |-> trigger, mode |-> mode, outcome |-> outcome, ret |-> ret,
   execs |-> execs, result |-> res, jobAdded |-> added, errorLogged |-> logged]

\* A direct path that does nothing
DirectCallNoOpMutant(trigger, res) ==
  CallRecord(trigger, "direct", "returned",
             [jobId |-> "direct-execution", queued |-> FALSE],
             0, NoResult, FALSE, FALSE)

\* The direct path: await executeWorkflow(...), its result dropped, then
\* return { jobId: 'direct-execution', queued: false }; an exception of the
\* executor goes through the catch block and is thrown again
DirectCall(trigger, res) ==
  IF res.kind = "throw"
  THEN CallRecord(trigger, "direct", "threw", NoReturn, 1, res, FALSE, TRUE)
  ELSE CallRecord(trigger, "direct", "returned",
                  [jobId |-> "direct-execution", queued |-> FALSE],
                  1, res, FALSE, FALSE)

QueueWorkflowExecution(trigger, priority, delay, res, addOk) ==
  /\ Len(calls) < MaxCalls
  /\ IF ~REDIS_URL
     THEN /\ calls' = Append(calls, DirectCall(trigger, res))
          /\ UNCHANGED wfJobs
     ELSE IF WORKFLOW_QUEUE_NAME \notin queues
     THEN /\ calls' = Append(calls,
               CallRecord(trigger, "uninitialized", "threw", NoReturn, 0,
                          NoResult, FALSE, TRUE))
          /\ UNCHANGED wfJobs
     ELSE IF ~addOk
     THEN /\ calls' = Append(calls,
               CallRecord(trigger, "addFailed", "threw", NoReturn, 0,
                          NoResult, FALSE, TRUE))
          /\ UNCHANGED wfJobs
     ELSE /\ wfJobs' = Append(wfJobs,
               [call |-> Len(calls) + 1,
                priority |-> EffectivePriority(priority),
                state |-> IF delay = Undefined THEN "waiting" ELSE "delayed",
                attemptsMade |-> 0,
                runs |-> <<>>,
                failedReason |-> NoError,
                lastResult |-> NoResult,
                lastStarted |-> {},
                retryDelay |-> 0,
                nextRetryIn |-> 0])
          /\ calls' = Append(calls,
               CallRecord(trigger, "queued", "returned",
                          [jobId |-> "job", queued |-> TRUE],
                          0, NoResult, TRUE, FALSE))
  /\ UNCHANGED <<REDIS_URL, initCalled, queues, worker, chats>>
  /\ UNCHANGED <<WORKFLOW_CONCURRENCY, NODE_ENV, effConcurrency, stats>>
  /\ UNCHANGED nonQueueVars

\* The worker takes a waiting job: one that no waiting job precedes in
\* priority (lower number first)
WorkerTake(j) ==
  /\ worker
  /\ wfJobs[j].state = "waiting"
  /\ \A i \in DOMAIN wfJobs :
       wfJobs[i].state = "waiting" => wfJobs[i].priority >= wfJobs[j].priority
  /\ ActiveCount < effConcurrency
  /\ wfJobs' = [wfJobs EXCEPT ![j].state = "active"]
  /\ UNCHANGED <<REDIS_URL, initCalled, queues, worker, calls, chats>>
  /\ UNCHANGED <<WORKFLOW_CONCURRENCY, NODE_ENV, effConcurrency, stats, histVars>>
  /\ UNCHANGED nonQueueVars

\* The worker processor runs one attempt of an active job
ProcessJob(j, res) ==
  /\ wfJobs[j].state = "active"
  /\ wfJobs' = [wfJobs EXCEPT ![j] =
       LET moved == AfterAttempt(Executed(@, res), res, ProcessorError(res))
       IN IF ProcessorError(res) = NoError THEN moved ELSE OnFailed(moved)]
  /\ UNCHANGED <<REDIS_URL, initCalled, queues, worker, calls, chats>>
  /\ UNCHANGED <<WORKFLOW_CONCURRENCY, NODE_ENV, effConcurrency, stats>>
  /\ UNCHANGED nonQueueVars

\* The backoff (or the initial delay) of a delayed job elapses
PromoteDelayed(j) ==
  /\ wfJobs[j].state = "delayed"
  /\ wfJobs' = [wfJobs EXCEPT ![j].state = "waiting"]
  /\ UNCHANGED <<REDIS_URL, initCalled, queues, worker, calls, chats>>
  /\ UNCHANGED <<WORKFLOW_CONCURRENCY, NODE_ENV, effConcurrency, stats, histVars>>
  /\ UNCHANGED nonQueueVars

\* queueWorkflowExecution(id, user, 'manual', data, { priority }) with the
\* history of the priority asked for and of the step executions of the job
EnqueueWithPriority(p) ==
  /\ QueueWorkflowExecution("manual", p, Undefined, OkResult, TRUE)
  /\ requested' = IF Len(wfJobs') > Len(wfJobs) THEN Append(requested, p)
                  ELSE requested
  /\ effects' = IF Len(wfJobs') > Len(wfJobs)
                THEN Append(effects, [s \in StepSet |-> 0])
                ELSE effects

\* One attempt of the worker processor, counting each step it executes
ProcessJobCounted(j, res) ==
  /\ ProcessJob(j, res)
  /\ effects' = [effects EXCEPT ![j] =
       [s \in StepSet |-> @[s] + IF s \in StepsStarted(res) THEN 1 ELSE 0]]
  /\ UNCHANGED requested

\* The result record of getWorkflowQueueStats; pc is the count the call in
\* progress reads next, 0 when no call is in progress; jobsAtCall is
\* history: the number of jobs the queue held when the call began
NoStats == [pc |-> 0, called |-> FALSE, null |-> FALSE, waiting |-> 0,
            active |-> 0, completed |-> 0, failed |-> 0, delayed |-> 0,
            total |-> 0, jobsAtCall |-> 0]

\* The counts in the order Promise.all asks for them
StatsFields == <<"waiting", "active", "completed", "failed", "delayed">>

\* queue.getWaitingCount() and its siblings
CountState(st) ==
  Cardinality({j \in DOMAIN wfJobs : wfJobs[j].state = st})

StatsTotalAllMutant(s) ==
  s.waiting + s.active + s.completed + s.failed + s.delayed

\* total: waiting + active + delayed
StatsTotal(s) == s.waiting + s.active + s.delayed

\* getWorkflowQueueStats up to its await: null without the queue, else the
\* five counts are asked for
GetWorkflowQueueStats ==
  /\ stats.pc = 0
  /\ stats' = IF WORKFLOW_QUEUE_NAME \notin queues
              THEN [NoStats EXCEPT !.called = TRUE, !.null = TRUE]
              ELSE [NoStats EXCEPT !.pc = 1, !.jobsAtCall = Len(wfJobs)]
  /\ UNCHANGED <<REDIS_URL, initCalled, queues, worker, wfJobs, calls, chats>>
  /\ UNCHANGED <<WORKFLOW_CONCURRENCY, NODE_ENV, effConcurrency, histVars>>
  /\ UNCHANGED nonQueueVars

\* One count arrives; with the fifth the call returns the record
StatsRead ==
  /\ stats.pc \in DOMAIN StatsFields
  /\ LET read == [stats EXCEPT ![StatsFields[stats.pc]] =
                                 CountState(StatsFields[stats.pc])]
     IN stats' = IF stats.pc < Len(StatsFields)
                 THEN [read EXCEPT !.pc = @ + 1]
                 ELSE [read EXCEPT !.pc = 0, !.called = TRUE,
                                   !.total = StatsTotal(read)]
  /\ UNCHANGED <<REDIS_URL, initCalled, queues, worker, wfJobs, calls, chats>>
  /\ UNCHANGED <<WORKFLOW_CONCURRENCY, NODE_ENV, effConcurrency, histVars>>
  /\ UNCHANGED nonQueueVars

\* POST /api/workflows/[id]/chat: 404 for an unknown workflow, else the
\* stream's onFinish awaits executeWorkflowConfig and logs what it throws
ChatPost(found) ==
  /\ Len(chats) < MaxChats
  /\ chats' = Append(chats,
       IF ~found
       THEN [status |-> 404, enqueueCalls |-> 0, inlineExecs |-> 0]
       ELSE [status |-> 200, enqueueCalls |-> 0, inlineExecs |-> 1])
  /\ UNCHANGED <<REDIS_URL, initCalled, queues, worker, wfJobs, calls>>
  /\ UNCHANGED <<WORKFLOW_CONCURRENCY, NODE_ENV, effConcurrency, stats, histVars>>
  /\ UNCHANGED nonQueueVars

----------------------------------------------------------------------------
(* Scheduler *)

Names == {"ai-tweet-generation", "reply-to-tweets"}

\* JOB_TASKS of the job-control route: the task function of each job name
JOB_TASKS ==
  [n \in Names |-> IF n = "ai-tweet-generation" THEN "generateAndPostTweet"
                   ELSE "replyToTweetsJob"]
EnabledInputs == {"true", "false", "undefined"}

\* Cron expressions as their whitespace-separated fields
Schedules ==
  { <<"*", "*", "*", "*", "*">>,
    <<"*/5", "*", "*", "*", "*">>,
    <<"*", "*", "*">> }

ValidFields == {"*", "*/5", "0"}

\* cron.validate: five fields (six with seconds), each field well-formed
Validate(expr) ==
  /\ Len(expr) \in {5, 6}
  /\ \A i \in 1..Len(expr) : expr[i] \in ValidFields

JobInputs ==
  { [name |-> n, schedule |-> c, enabled |-> e, fn |-> JOB_TASKS[n]] :
      n \in Names, c \in Schedules, e \in EnabledInputs }

NameOnly(n) == [name |-> n, schedule |-> <<>>, enabled |-> "undefined", fn |-> ""]

\* The Scheduler object
Sched == [jobs |-> jobs, tasks |-> tasks, isInitialized |-> isInitialized]

Has(s, n) == n \in DOMAIN s.jobs

\* ScheduledTask.start / ScheduledTask.stop
TaskStart(t) == [t EXCEPT !.running = TRUE]
TaskStop(t) == [t EXCEPT !.running = FALSE]

\* cron.schedule(...) followed by scheduledTask.stop() and this.jobs.set(...)
AddTask(s, job) ==
  [s EXCEPT !.tasks = Append(@, TaskStop([name |-> job.name,
                                          schedule |-> job.schedule,
                                          fn |-> job.fn,
                                          running |-> TRUE])),
            !.jobs = (job.name :> (Len(s.tasks) + 1)) @@ s.jobs]

\* register without the validity check
RegisterNoValidateMutant(s, job) ==
  IF Has(s, job.name) THEN s
  ELSE IF job.enabled = "false" THEN s
  ELSE AddTask(s, job)

\* register without the duplicate-name check
RegisterNoDuplicateCheckMutant(s, job) ==
  IF job.enabled = "false" THEN s
  ELSE IF ~Validate(job.schedule) THEN s
  ELSE AddTask(s, job)

RegisterF(s, job) ==
  IF Has(s, job.name) THEN s
  ELSE IF job.enabled = "false" THEN s
  ELSE IF ~Validate(job.schedule) THEN s
  ELSE AddTask(s, job)

\* start that flips the flag instead of setting it
StartToggleMutant(s) ==
  [s EXCEPT !.tasks = [i \in DOMAIN s.tasks |->
                         IF \E n \in DOMAIN s.jobs : s.jobs[n] = i
                         THEN TaskStart(s.tasks[i]) ELSE s.tasks[i]],
            !.isInitialized = ~s.isInitialized]

StartF(s) ==
  IF s.isInitialized THEN s
  ELSE [s EXCEPT !.tasks = [i \in DOMAIN s.tasks |->
                              IF \E n \in DOMAIN s.jobs : s.jobs[n] = i
                              THEN TaskStart(s.tasks[i]) ELSE s.tasks[i]],
                 !.isInitialized = TRUE]

StopF(s) ==
  [s EXCEPT !.tasks = [i \in DOMAIN s.tasks |->
                         IF \E n \in DOMAIN s.jobs : s.jobs[n] = i
                         THEN TaskStop(s.tasks[i]) ELSE s.tasks[i]],
            !.isInitialized = FALSE]

\* unregister that deletes the map entry without stopping the task
UnregisterNoStopMutant(s, n) ==
  IF ~Has(s, n) THEN s
  ELSE [s EXCEPT !.jobs = [m \in DOMAIN s.jobs \ {n} |-> s.jobs[m]]]

UnregisterF(s, n) ==
  IF ~Has(s, n) THEN s
  ELSE [s EXCEPT !.tasks = [@ EXCEPT ![s.jobs[n]] = TaskStop(@)],
                 !.jobs = [m \in DOMAIN s.jobs \ {n} |-> s.jobs[m]]]

StartJobF(s, n) ==
  IF ~Has(s, n) THEN s
  ELSE [s EXCEPT !.tasks = [@ EXCEPT ![s.jobs[n]] = TaskStart(@)]]

StopJobF(s, n) ==
  IF ~Has(s, n) THEN s
  ELSE [s EXCEPT !.tasks = [@ EXCEPT ![s.jobs[n]] = TaskStop(@)]]

\* registerOrUpdate that leaves the new job stopped
RegisterOrUpdateNoStartMutant(s, job) ==
  LET s1 == IF Has(s, job.name) THEN UnregisterF(s, job.name) ELSE s
      s2 == RegisterF(s1, job)
  IN IF job.enabled # "false" THEN [s2 EXCEPT !.isInitialized = TRUE] ELSE s2

RegisterOrUpdateF(s, job) ==
  LET s1 == IF Has(s, job.name) THEN UnregisterF(s, job.name) ELSE s
      s2 == RegisterF(s1, job)
  IN IF job.enabled # "false"
     THEN [StartJobF(s2, job.name) EXCEPT !.isInitialized = TRUE]
     ELSE s2

\* The Scheduler object becomes s
Becomes(s) ==
  /\ jobs' = s.jobs
  /\ tasks' = s.tasks
  /\ isInitialized' = s.isInitialized

Register(job) ==
  /\ Len(RegisterF(Sched, job).tasks) <= MaxTasks
  /\ Becomes(RegisterF(Sched, job))
  /\ lastCall' = [op |-> "register", job |-> job]
  /\ UNCHANGED nonSchedVars

RegisterOrUpdate(job) ==
  /\ Len(RegisterOrUpdateF(Sched, job).tasks) <= MaxTasks
  /\ Becomes(RegisterOrUpdateF(Sched, job))
  /\ lastCall' = [op |-> "registerOrUpdate", job |-> job]
  /\ UNCHANGED nonSchedVars

Start ==
  /\ Becomes(StartF(Sched))
  /\ lastCall' = [op |-> "start", job |-> NameOnly("")]
  /\ UNCHANGED nonSchedVars

Stop ==
  /\ Becomes(StopF(Sched))
  /\ lastCall' = [op |-> "stop", job |-> NameOnly("")]
  /\ UNCHANGED nonSchedVars

Unregister(n) ==
  /\ Becomes(UnregisterF(Sched, n))
  /\ lastCall' = [op |-> "unregister", job |-> NameOnly(n)]
  /\ UNCHANGED nonSchedVars

StartJob(n) ==
  /\ Becomes(StartJobF(Sched, n))
  /\ lastCall' = [op |-> "startJob", job |-> NameOnly(n)]
  /\ UNCHANGED nonSchedVars

StopJob(n) ==
  /\ Becomes(StopJobF(Sched, n))
  /\ lastCall' = [op |-> "stopJob", job |-> NameOnly(n)]
  /\ UNCHANGED nonSchedVars

\* isRunning()
isRunning == isInitialized

\* The Scheduler calls with the history of the jobs that stopJob stopped
\* while they ran: startJob, registerOrUpdate and unregister of a name end it
StopJobNoted(n) ==
  /\ StopJob(n)
  /\ halted' = IF Has(Sched, n) /\ tasks[jobs[n]].running
               THEN halted \cup {n} ELSE halted

StartJobNoted(n) ==
  /\ StartJob(n)
  /\ halted' = halted \ {n}

RegisterOrUpdateNoted(job) ==
  /\ RegisterOrUpdate(job)
  /\ halted' = halted \ {job.name}

UnregisterNoted(n) ==
  /\ Unregister(n)
  /\ halted' = halted \ {n}

----------------------------------------------------------------------------
(* The cron callback of register *)

\* What job.task() does: it resolves, or it throws an Error or another value
TaskOutcomes == {"resolves", "throwsError", "throwsValue"}

\* No run yet, an empty job_logs table
NoCron == [runs |-> <<>>, logs |-> {}]

\* The callback of task i has been called and awaits job.task()
NewRun(i) ==
  [task |-> i, jobName |-> tasks[i].name, at |-> "task", status |-> "",
   message |-> "", inserts |-> 0, escaped |-> FALSE]

\* errorMessage: error.message of an Error, String(error) of another value
ErrorMessage(outcome) ==
  IF outcome = "throwsError" THEN "error.message" ELSE "String(error)"

\* job.task() has settled: the callback calls insert(jobLogsTable) with
\* status success in the try block, with status error in the catch block
AfterTask(run, outcome) ==
  [run EXCEPT !.at = "insert",
              !.status = IF outcome = "resolves" THEN "success" ELSE "error",
              !.message = IF outcome = "resolves"
                          THEN "Job completed successfully"
                          ELSE ErrorMessage(outcome),
              !.inserts = @ + 1]

\* A callback whose inserts are not wrapped in a try of their own: a failed
\* success insert is caught by the outer catch, which inserts an error row;
\* a failed error insert leaves the callback
AfterInsertOuterCatchMutant(run, ok) ==
  IF ok THEN [run EXCEPT !.at = "done"]
  ELSE IF run.status = "success"
  THEN [run EXCEPT !.status = "error", !.message = "String(error)",
                   !.inserts = @ + 1]
  ELSE [run EXCEPT !.at = "done", !.escaped = TRUE]

\* The insert has settled: a rejection is caught by the try around the insert
\* and only printed
AfterInsert(run, ok) == [run EXCEPT !.at = "done"]

\* node-cron calls the callback of a started task
CronFire(i) ==
  /\ tasks[i].running
  /\ Len(cron.runs) < MaxRuns
  /\ cron' = [cron EXCEPT !.runs = Append(@, NewRun(i))]
  /\ UNCHANGED <<nonAppVars, ctl, bull, api>>

TaskSettle(r, outcome) ==
  /\ cron.runs[r].at = "task"
  /\ cron' = [cron EXCEPT !.runs[r] = AfterTask(@, outcome)]
  /\ UNCHANGED <<nonAppVars, ctl, bull, api>>

InsertSettle(r, ok) ==
  /\ cron.runs[r].at = "insert"
  /\ cron' =
       [cron EXCEPT
          !.runs[r] = AfterInsert(@, ok),
          !.logs = IF ok THEN @ \cup {[run |-> r,
                                        jobName |-> cron.runs[r].jobName,
                                        status |-> cron.runs[r].status]}
                   ELSE @]
  /\ UNCHANGED <<nonAppVars, ctl, bull, api>>

----------------------------------------------------------------------------
(* POST /api/jobs/control *)

\* jobName values of a request: the JOB_TASKS keys, a name JOB_TASKS does
\* not have, and a body without jobName
JobNameInputs == Names \cup {"unknown-job", ""}

\* action values of a request, "" for a body without action
ActionInputs == {"start", "stop", "pause", ""}

\* interval of the body or of the app_settings row; <<>> when there is none
NoSchedule == <<>>
IntervalInputs == {NoSchedule, <<"*/5", "*", "*", "*", "*">>, <<"*", "*", "*">>}

\* What the app_settings query for <jobName>_interval gives: no row, a row
\* with a schedule, or an exception
QueryThrows == <<"throws">>
StoredInputs == {NoSchedule, <<"*/5", "*", "*", "*", "*">>, QueryThrows}

\* No request has been answered
NoControl ==
  [session |-> FALSE, action |-> "", jobName |-> "", status |-> 0,
   wasRunning |-> FALSE, ranBefore |-> FALSE]

\* The task of the job runs (it is in the job map and started)
JobRuns(s, n) == Has(s, n) /\ s.tasks[s.jobs[n]].running

\* scheduler.stopJob(jobName): true when the name is in the job map
StopJobReturns(s, n) == Has(s, n)

\* The status the handler answers with; dbThrows: the app_settings query of
\* the start action throws
ControlStatus(session, action, jobName, schedule, dbThrows) ==
  IF ~session THEN 401
  ELSE IF action = "" \/ jobName = "" THEN 400
  ELSE IF action \notin {"start", "stop"} THEN 400
  ELSE IF jobName \notin DOMAIN JOB_TASKS THEN 404
  ELSE IF action = "stop" THEN 200
  ELSE IF dbThrows THEN 500
  ELSE IF schedule = NoSchedule THEN 400
  ELSE 200

\* The handler: interval is the body's, stored the app_settings row's
ControlPost(session, action, jobName, interval, stored) ==
  LET loads == interval = NoSchedule
      schedule == IF ~loads THEN interval
                  ELSE IF stored = QueryThrows THEN NoSchedule ELSE stored
      status == ControlStatus(session, action, jobName, schedule,
                              loads /\ stored = QueryThrows)
      job == [name |-> jobName, schedule |-> schedule, enabled |-> "true",
              fn |-> IF jobName \in DOMAIN JOB_TASKS THEN JOB_TASKS[jobName]
                     ELSE ""]
      s == IF status # 200 THEN Sched
           ELSE IF action = "start" THEN RegisterOrUpdateF(Sched, job)
           ELSE StopJobF(Sched, jobName)
  IN /\ Len(s.tasks) <= MaxTasks
     /\ Becomes(s)
     /\ lastCall' = IF status # 200 THEN lastCall
                    ELSE IF action = "start"
                    THEN [op |-> "registerOrUpdate", job |-> job]
                    ELSE [op |-> "stopJob", job |-> NameOnly(jobName)]
     /\ ctl' = [session |-> session, action |-> action, jobName |-> jobName,
                status |-> status,
                wasRunning |-> status = 200 /\ action = "stop"
                               /\ StopJobReturns(Sched, jobName),
                ranBefore |-> JobRuns(Sched, jobName)]
     /\ UNCHANGED <<nonSchedAppVars, cron, bull, api>>

----------------------------------------------------------------------------
(* Twitter usage tracking *)

\* Seconds in one unit of the model's clock
secPerTick == 450

\* The windows of a track operation, in loop order; the durations of the
\* code (in ms) in ticks
Windows ==
  << [type |-> "last_15_minutes", duration |-> (15 * 60) \div secPerTick],
     [type |-> "last_hour", duration |-> (60 * 60) \div secPerTick],
     [type |-> "last_24_hours", duration |-> (24 * 60 * 60) \div secPerTick],
     [type |-> "last_month",
      duration |-> (30 * 24 * 60 * 60) \div secPerTick] >>

UsageTypes == {"post", "read"}

\* Two requests can be in progress at once
Slots == {1, 2}

Idle == [phase |-> "idle", type |-> "post", now |-> 0, w |-> 0, seen |-> "none"]

\* Indexes of the rows of one window type
RowsOf(windowType) ==
  {i \in DOMAIN usageRows : usageRows[i].windowType = windowType}

Min(S) == CHOOSE x \in S : \A y \in S : x <= y
Max(S) == CHOOSE x \in S : \A y \in S : x >= y

\* select().where(windowType = ...).limit(1) followed by the expiry test:
\* no row, a row whose window has expired at `now`, or a live row
Existing(windowType, duration, now) ==
  IF RowsOf(windowType) = {} THEN "none"
  ELSE LET record == usageRows[Min(RowsOf(windowType))]
           elapsed == now - record.windowStart
       IN IF elapsed > duration THEN "expired" ELSE "live"

\* The row a track operation inserts or resets a window to
FirstRow(windowType, type, now) ==
  [windowType |-> windowType,
   postsCount |-> IF type = "post" THEN 1 ELSE 0,
   readsCount |-> IF type = "read" THEN 1 ELSE 0,
   windowStart |-> now]

\* [columnToIncrement]: column + 1
Incremented(row, type) ==
  IF type = "post" THEN [row EXCEPT !.postsCount = @ + 1]
  ELSE [row EXCEPT !.readsCount = @ + 1]

\* A track operation starts: POST /api/twitter/usage or trackUsageDirectly
\* takes now = new Date() and enters the loop over the windows
TrackBegin(slot, type) ==
  /\ trackers[slot] = Idle
  /\ \A k \in Slots : k < slot => trackers[k] # Idle
  /\ Len(tracked) < MaxTracks
  /\ trackers' = [trackers EXCEPT ![slot] =
       [phase |-> "select", type |-> type, now |-> clock, w |-> 1,
        seen |-> "none"]]
  /\ tracked' = Append(tracked, [type |-> type, at |-> clock])
  /\ UNCHANGED <<usageRows, uniqueWindowType, clock, lastGet>>

TrackStart(slot, type) ==
  /\ TrackBegin(slot, type)
  /\ UNCHANGED nonUsageVars

\* The select of the current window returns
TrackSelect(slot) ==
  /\ trackers[slot].phase = "select"
  /\ LET t == trackers[slot]
     IN trackers' = [trackers EXCEPT ![slot] =
          [t EXCEPT !.phase = "write",
                    !.seen = Existing(Windows[t.w].type, Windows[t.w].duration,
                                      t.now)]]
  /\ UNCHANGED <<usageRows, uniqueWindowType, clock, tracked, lastGet>>
  /\ UNCHANGED nonUsageVars

\* The insert or update of the current window runs; an insert the unique
\* index rejects throws, and the catch block ends the operation
TrackWrite(slot) ==
  /\ trackers[slot].phase = "write"
  /\ LET t == trackers[slot]
         win == Windows[t.w].type
         rejected == t.seen = "none" /\ uniqueWindowType /\ RowsOf(win) # {}
     IN /\ usageRows' =
             IF rejected THEN usageRows
             ELSE IF t.seen = "none"
             THEN Append(usageRows, FirstRow(win, t.type, t.now))
             ELSE [i \in DOMAIN usageRows |->
                     IF usageRows[i].windowType # win THEN usageRows[i]
                     ELSE IF t.seen = "expired"
                     THEN FirstRow(win, t.type, t.now)
                     ELSE Incremented(usageRows[i], t.type)]
        /\ trackers' = [trackers EXCEPT ![slot] =
             IF rejected \/ t.w = Len(Windows) THEN Idle
             ELSE [t EXCEPT !.phase = "select", !.w = @ + 1,
                            !.seen = "none"]]
  /\ UNCHANGED <<uniqueWindowType, clock, tracked, lastGet>>
  /\ UNCHANGED nonUsageVars

\* Time passes
Elapse(ticks, limit) ==
  /\ clock + ticks <= limit
  /\ clock' = clock + ticks
  /\ UNCHANGED <<usageRows, uniqueWindowType, trackers, tracked, lastGet>>
  /\ UNCHANGED nonUsageVars

\* One tick passes
Tick == Elapse(1, MaxClock)

\* createWindowData / createReadWindowData: windowMap holds the last row
\* selected for a window type; 0 without a row or for an expired window
WindowCount(w, type) ==
  IF RowsOf(Windows[w].type) = {} THEN 0
  ELSE LET record == usageRows[Max(RowsOf(Windows[w].type))]
           elapsed == clock - record.windowStart
       IN IF elapsed > Windows[w].duration THEN 0
          ELSE IF type = "post" THEN record.postsCount
          ELSE record.readsCount

NoGet == [called |-> FALSE, now |-> 0,
          postUsage |-> [w \in DOMAIN Windows |-> 0],
          readUsage |-> [w \in DOMAIN Windows |-> 0]]

\* GET /api/twitter/usage
UsageGet ==
  /\ lastGet' = [called |-> TRUE, now |-> clock,
                 postUsage |-> [w \in DOMAIN Windows |-> WindowCount(w, "post")],
                 readUsage |-> [w \in DOMAIN Windows |-> WindowCount(w, "read")]]
  /\ UNCHANGED <<usageRows, uniqueWindowType, trackers, clock, tracked>>
  /\ UNCHANGED nonUsageVars

----------------------------------------------------------------------------
(* OpenAI module *)

maxConcurrentSixMutant == 5 + 1

\* openaiRateLimiter: maxConcurrent, reservoir
maxConcurrent == 5
reservoir == 500

\* timeout of the OpenAI client, and of createCompletionWithBreaker
clientTimeout == 60000
breakerTimeout == 60000

failureThresholdSixMutant == 5 + 1

\* Consecutive failures that open a circuit
failureThreshold == 5

\* The exported functions that call the API
ExportedFunctions ==
  {"createCompletion", "chat", "generateText", "generateFast",
   "generateQuality", "analyzeImage", "streamCompletion", "generateJSON"}

\* The function whose body makes the API call of an exported function
Delegate(fn) ==
  CASE fn = "chat" -> "createCompletion"
    [] fn \in {"generateFast", "generateQuality"} -> "generateText"
    [] OTHER -> fn

CreateCompletionBreakerFirstMutant == <<"breaker", "limiter">>

\* createCompletion = withRateLimit(o => createCompletionWithBreaker.fire(o),
\* openaiRateLimiter): the policies around createCompletionInternal, from
\* the outermost to the innermost
CreateCompletionLayers == <<"limiter", "breaker">>

\* The policies between an exported function and its API call
Layers(fn) ==
  IF Delegate(fn) = "createCompletion" THEN CreateCompletionLayers ELSE <<>>

\* Position of a policy among the layers, 0 when it is not one of them
Pos(layers, x) ==
  IF \E i \in DOMAIN layers : layers[i] = x
  THEN CHOOSE i \in DOMAIN layers : layers[i] = x
  ELSE 0

Limited(layers) == Pos(layers, "limiter") > 0
Guarded(layers) == Pos(layers, "breaker") > 0

\* The circuit is consulted when the call arrives, or when the limiter
\* admits it
ConsultedAtArrival(layers) ==
  Guarded(layers) /\
    (~Limited(layers) \/ Pos(layers, "breaker") < Pos(layers, "limiter"))
ConsultedAtAdmission(layers) ==
  Limited(layers) /\ Pos(layers, "breaker") > Pos(layers, "limiter")

NoRequest == [fn |-> "", kind |-> "none", limited |-> FALSE,
              guarded |-> FALSE, circuit |-> "closed", timeout |-> 0]

\* A call starts its API request, under the timeout that bounds it
ApiRequest(fn, limited) ==
  [fn |-> fn, kind |-> "api", limited |-> limited,
   guarded |-> Guarded(Layers(fn)), circuit |-> breaker.state,
   timeout |-> IF Guarded(Layers(fn)) THEN breakerTimeout ELSE clientTimeout]

\* The open circuit fails a call without calling the API
Rejected(fn, limited) ==
  [fn |-> fn, kind |-> "rejected", limited |-> limited, guarded |-> TRUE,
   circuit |-> breaker.state, timeout |-> 0]

\* The circuit after a guarded call ends
BreakerAfter(b, ok) ==
  IF ok
  THEN IF b.state = "open" THEN b ELSE [state |-> "closed", failures |-> 0]
  ELSE IF b.state # "closed" \/ b.failures + 1 >= failureThreshold
       THEN [state |-> "open", failures |-> 0]
       ELSE [b EXCEPT !.failures = @ + 1]

\* An exported function is called
AiCall(fn) ==
  /\ aiStarted < MaxAiCalls
  /\ aiStarted' = aiStarted + 1
  /\ IF ConsultedAtArrival(Layers(fn)) /\ breaker.state = "open"
     THEN /\ lastRequest' = Rejected(fn, FALSE)
          /\ UNCHANGED limiterQueue
     ELSE IF Limited(Layers(fn))
     THEN /\ limiterQueue' = Append(limiterQueue, fn)
          /\ UNCHANGED lastRequest
     ELSE /\ lastRequest' = ApiRequest(fn, FALSE)
          /\ UNCHANGED limiterQueue
  /\ UNCHANGED <<limiterRunning, limiterReservoir, breaker, aiHist>>
  /\ UNCHANGED nonAiVars

\* The limiter admits its oldest call and runs the function it wraps
LimiterAdmit ==
  /\ limiterQueue # <<>>
  /\ limiterRunning < maxConcurrent
  /\ limiterReservoir > 0
  /\ limiterQueue' = Tail(limiterQueue)
  /\ limiterReservoir' = limiterReservoir - 1
  /\ LET fn == Head(limiterQueue) IN
     IF ConsultedAtAdmission(Layers(fn)) /\ breaker.state = "open"
     THEN /\ lastRequest' = Rejected(fn, TRUE)
          /\ UNCHANGED limiterRunning
     ELSE /\ lastRequest' = ApiRequest(fn, TRUE)
          /\ limiterRunning' = limiterRunning + 1
  /\ aiHist' = [aiHist EXCEPT !.windowStarts = @ + 1]
  /\ UNCHANGED <<breaker, aiStarted>>
  /\ UNCHANGED nonAiVars

\* The API call of an admitted createCompletion ends: it answers, fails, or
\* is cut by the timeout
ApiRespond(outcome) ==
  /\ limiterRunning > 0
  /\ limiterRunning' = limiterRunning - 1
  /\ breaker' = IF Guarded(CreateCompletionLayers)
                THEN BreakerAfter(breaker, outcome = "ok")
                ELSE breaker
  /\ aiHist' = [aiHist EXCEPT !.streak = IF outcome = "ok" THEN 0 ELSE @ + 1]
  /\ UNCHANGED <<limiterQueue, limiterReservoir, aiStarted, lastRequest>>
  /\ UNCHANGED nonAiVars

\* The open circuit lets a trial call through after its reset time
BreakerHalfOpen ==
  /\ breaker.state = "open"
  /\ breaker' = [breaker EXCEPT !.state = "halfOpen"]
  /\ UNCHANGED <<limiterQueue, limiterRunning, limiterReservoir, aiStarted,
                 lastRequest, aiHist>>
  /\ UNCHANGED nonAiVars

\* reservoirRefreshInterval: the minute ends
ReservoirRefresh ==
  /\ limiterReservoir < reservoir
  /\ limiterReservoir' = reservoir
  /\ aiHist' = [aiHist EXCEPT !.windowStarts = 0]
  /\ UNCHANGED <<limiterQueue, limiterRunning, breaker, aiStarted,
                 lastRequest>>
  /\ UNCHANGED nonAiVars

----------------------------------------------------------------------------
(* scripts/validate-workflow.ts *)

\* A property a step does not have, or has as the empty string
Absent == ""

\* Paths `category.module.function` of the registry
validPaths == {"utilities.datetime.now", "utilities.datetime.formatDate"}

\* Module paths a step may name: a registered one and an unregistered one
ModuleInputs == {"utilities.datetime.now", "utilities.datetime.format"}

\* Names a step may bind with outputAs
OutputNames == {"a", "b"}

\* Roots of the {{...}} expressions in a step's inputs
RootInputs == OutputNames \cup {"user", "trigger", "credential"}

\* Shapes of a {{...}} expression: {{root}}, {{root.field}} and
\* {{root[0].field}}
FormInputs == {"plain", "path", "indexThenPath"}

\* /\{\{(\w+)(?:\.\w+)*(?:\[\d+\])*\}\}/ : a word, then fields, then indexes
MatchesRefPattern(form) == form \in {"plain", "path"}

NoRefs == {}

\* A step that calls a module
PlainStep(module, refs, outputAs) ==
  [type |-> "plain", module |-> module, hasInputs |-> TRUE, refs |-> refs,
   outputAs |-> outputAs, steps |-> <<>>]

\* A forEach block: id, type, array, itemAs and steps, no module, no inputs
ForEachStep(nested) ==
  [type |-> "forEach", module |-> Absent, hasInputs |-> FALSE,
   refs |-> NoRefs, outputAs |-> Absent, steps |-> nested]

RefInputs ==
  {NoRefs} \cup {{[root |-> r, form |-> f]} : r \in RootInputs, f \in FormInputs}

NestedInputs ==
  {PlainStep(m, {[root |-> r, form |-> "plain"]}, Absent) :
     m \in ModuleInputs, r \in OutputNames}

StepInputs ==
  {PlainStep(m, refs, o) :
     m \in ModuleInputs, refs \in RefInputs, o \in OutputNames \cup {Absent}}
  \cup {ForEachStep(<<n>>) : n \in NestedInputs}

WorkflowInputs ==
  UNION {[1..n -> StepInputs] : n \in 1..MaxSteps}

\* validateModulePaths: the top-level steps whose module is not a path of
\* the registry
validateModulePaths(steps) ==
  {i \in DOMAIN steps : steps[i].module \notin validPaths}

\* declaredVariables when step i is checked: the outputAs of the steps
\* before it
declaredVariables(steps, i) ==
  {steps[k].outputAs : k \in 1..(i - 1)} \ {Absent}

\* variableRefs of a step: the expressions of its inputs that the pattern
\* matches
variableRefs(step) == {r \in step.refs : MatchesRefPattern(r.form)}

\* validateVariableReferences: step index and name of every reference to a
\* name not declared earlier, `user` excepted
validateVariableReferences(steps) ==
  UNION {{<<i, r.root>> : r \in {q \in variableRefs(steps[i]) :
                                   /\ q.root \notin declaredVariables(steps, i)
                                   /\ q.root # "user"}} : i \in DOMAIN steps}

\* JSON.stringify(step.inputs).match throws for a step without inputs
StringifyThrows(steps) == \E i \in DOMAIN steps : ~steps[i].hasInputs

NotRun == -1

NoRun(workflow) ==
  [workflow |-> workflow, exit |-> NotRun, stage |-> "none",
   moduleErrors |-> {}, varErrors |-> {}]

\* validateWorkflow(workflowJson) up to the end of the process: parse, basic
\* structure, module paths, variable references, summary
validateWorkflow(parses, structureValid) ==
  /\ vrun.exit = NotRun
  /\ LET steps == vrun.workflow
         moduleErrors == validateModulePaths(steps)
         varErrors == validateVariableReferences(steps)
     IN vrun' =
        IF ~parses
        THEN [vrun EXCEPT !.exit = 1, !.stage = "parse"]
        ELSE IF ~structureValid
        THEN [vrun EXCEPT !.exit = 1, !.stage = "structure"]
        ELSE IF moduleErrors # {}
        THEN [vrun EXCEPT !.exit = 1, !.stage = "modules",
                          !.moduleErrors = moduleErrors]
        ELSE IF StringifyThrows(steps)
        THEN [vrun EXCEPT !.exit = 1, !.stage = "exception"]
        ELSE [vrun EXCEPT !.exit = 0, !.stage = "complete",
                          !.varErrors = varErrors]
  /\ UNCHANGED <<fix>>
  /\ UNCHANGED nonToolVars

----------------------------------------------------------------------------
(* The auto-fixer's parameter pass, as the battle test report records it *)

\* Modules the report names, with the parameters of their signatures
FixModules ==
  {"utilities.json-transform.pick", "utilities.math.round",
   "utilities.json-transform.parse"}

Signature(module) ==
  CASE module = "utilities.json-transform.pick" -> {"obj", "keys"}
    [] module = "utilities.math.round" -> {"value"}
    [] module = "utilities.json-transform.parse" -> {"jsonString"}

\* Parameter renames the fixer applied: num -> value, obj -> object
AliasOf(key) ==
  CASE key = "num" -> "value"
    [] key = "obj" -> "object"
    [] OTHER -> key

\* Parameter names a step may use
KeyInputs == {"obj", "object", "keys", "num", "value", "data", "jsonString"}

\* The placeholder {{FIXME_name}}
FIXME == "FIXME"

\* Inputs as the author wrote them: each parameter holds the value written
\* for it
Written(keys) == [k \in keys |-> k]

\* The fixer renames every parameter that has a rename, whether or not the
\* name is one of the module's own; when the new name is already there,
\* `overwrite` says which value stays
RenameParams(inputs, overwrite) ==
  [c \in {AliasOf(k) : k \in DOMAIN inputs} |->
     LET from == {k \in DOMAIN inputs : AliasOf(k) = c /\ k # c} IN
     IF from = {} THEN inputs[c]
     ELSE IF c \in DOMAIN inputs /\ AliasOf(c) = c /\ ~overwrite
     THEN inputs[c]
     ELSE inputs[CHOOSE k \in from : TRUE]]

\* A parameter of the signature that is not there is added with a
\* placeholder; parameters with other names are kept
AddMissingParams(module, inputs) ==
  [k \in DOMAIN inputs \cup Signature(module) |->
     IF k \in DOMAIN inputs THEN inputs[k] ELSE FIXME]

NormalizeParams(module, inputs, overwrite) ==
  AddMissingParams(module, RenameParams(inputs, overwrite))

\* One pass of the fixer over the step, at most two in a row
AutoFix(overwrite) ==
  /\ fix.passes < 2
  /\ fix' = [fix EXCEPT
        !.passes = @ + 1,
        !.before = fix.after,
        !.after = NormalizeParams(fix.module, fix.after, overwrite)]
  /\ UNCHANGED <<vrun>>
  /\ UNCHANGED nonToolVars

\* A step as written, the fixer not yet run
Unfixed(module, keys) ==
  [module |-> module, written |-> Written(keys), before |-> Written(keys),
   after |-> Written(keys), passes |-> 0]

----------------------------------------------------------------------------
(* The deduplication workflow of the workflow storage guide *)

\* The items both executions fetch, in order
Items == <<1, 2, 3>>

\* The executions of the workflow
Executions == {1, 2}

\* An execution that has fetched its items and plucked their ids
Fetched == [pc |-> "check_duplicates", alreadyReplied |-> {},
            newTweets |-> <<>>, i |-> 1]

\* The elements of a sequence that are not in a set, in order
RECURSIVE Without(_, _)
Without(seq, S) ==
  IF seq = <<>> THEN <<>>
  ELSE IF Head(seq) \in S THEN Without(Tail(seq), S)
  ELSE <<Head(seq)>> \o Without(Tail(seq), S)

\* check_duplicates: queryWhereIn reads the rows of replied_tweets whose
\* tweet_id is one of the fetched ids
CheckDuplicates(e) ==
  /\ dedup.runs[e].pc = "check_duplicates"
  /\ dedup' = [dedup EXCEPT
        !.runs[e] = [pc |-> "filter_new",
                     alreadyReplied |->
                       {Items[k] : k \in DOMAIN Items} \cap dedup.table,
                     newTweets |-> <<>>, i |-> 1]]
  /\ UNCHANGED <<hook, exec>>
  /\ UNCHANGED nonFlowVars

\* filter_new: tweets.filter(t => !alreadyReplied.includes(t.id))
FilterNew(e) ==
  /\ dedup.runs[e].pc = "filter_new"
  /\ LET run == dedup.runs[e]
         new == Without(Items, run.alreadyReplied)
     IN dedup' = [dedup EXCEPT
          !.runs[e] = [run EXCEPT !.newTweets = new,
                                  !.pc = IF new = <<>> THEN "done"
                                         ELSE "post_reply"]]
  /\ UNCHANGED <<hook, exec>>
  /\ UNCHANGED nonFlowVars

\* reply_loop, generate_reply and post_reply for the current tweet
PostReply(e) ==
  /\ dedup.runs[e].pc = "post_reply"
  /\ LET run == dedup.runs[e]
         tweet == run.newTweets[run.i]
     IN dedup' = [dedup EXCEPT
          !.replies[tweet] = @ \cup {e},
          !.runs[e] = [run EXCEPT !.pc = "store_replied"]]
  /\ UNCHANGED <<hook, exec>>
  /\ UNCHANGED nonFlowVars

\* reply_loop, store_replied: insertRecord of the current tweet's id, then
\* the next tweet
StoreReplied(e) ==
  /\ dedup.runs[e].pc = "store_replied"
  /\ LET run == dedup.runs[e]
         tweet == run.newTweets[run.i]
     IN dedup' = [dedup EXCEPT
          !.table = @ \cup {tweet},
          !.runs[e] = [run EXCEPT
                         !.i = @ + 1,
                         !.pc = IF run.i = Len(run.newTweets) THEN "done"
                                ELSE "post_reply"]]
  /\ UNCHANGED <<hook, exec>>
  /\ UNCHANGED nonFlowVars

----------------------------------------------------------------------------
(* POST /api/workflows/{id}/webhook *)

\* trigger.config.webhookSecret of a workflow, Absent when none is configured
SecretInputs == {"your-secret-key-here", "other-secret"}

\* Raw request bodies
PayloadInputs == {"{\"brand\":\"YourCompany\"}", "{\"brand\":\"Other\"}"}

\* 'sha256=' + createHmac('sha256', secret).update(payload).digest('hex'):
\* two digests are equal exactly when key and payload are
Sign(secret, payload) ==
  [present |-> TRUE, prefix |-> "sha256=", key |-> secret, payload |-> payload]

\* A request without x-webhook-signature and x-hub-signature-256
NoSignature == [present |-> FALSE, prefix |-> "", key |-> "", payload |-> ""]

\* Signature headers a client may send: none, a signature under any key of
\* any payload, or such a digest without its prefix
SignatureInputs ==
  {NoSignature}
  \cup {Sign(k, p) : k \in SecretInputs, p \in PayloadInputs}
  \cup {[Sign(k, p) EXCEPT !.prefix = ""] : k \in SecretInputs, p \in PayloadInputs}

VerifySignaturePresentMutant(secret, rawBody, signature) == signature.present

\* The signature is there and equals the one computed over the raw body
VerifySignature(secret, rawBody, signature) ==
  signature.present /\ signature = Sign(secret, rawBody)

\* POST: signature check when a secret is configured, rate limit, enqueue.
\* Which of the signature check and the rate limit comes first is open.
WebhookPost(rawBody, signature, overLimit, limitFirst) ==
  /\ Len(hook.log) < MaxHooks
  /\ LET rejected == hook.secret # Absent
                       /\ ~VerifySignature(hook.secret, rawBody, signature)
         status == IF overLimit /\ (limitFirst \/ ~rejected) THEN 429
                   ELSE IF rejected THEN 401
                   ELSE 200
     IN hook' = [hook EXCEPT
          !.log = Append(@, [body |-> rawBody, signature |-> signature,
                             status |-> status, queued |-> status = 200]),
          !.enqueued = IF status = 200 THEN @ + 1 ELSE @]
  /\ UNCHANGED <<dedup, exec>>
  /\ UNCHANGED nonFlowVars

\* A webhook workflow with its secret, no request made yet
NoHooks(secret) == [secret |-> secret, log |-> <<>>, enqueued |-> 0]

----------------------------------------------------------------------------
(* The step executor behind POST /api/workflows/test-runtime *)

\* Steps of the workflows that are executed: plain steps, each with at most
\* one {{root}} expression in its inputs
ExecStepInputs ==
  {PlainStep(m, refs, o) :
     m \in ModuleInputs,
     refs \in {NoRefs} \cup {{[root |-> r, form |-> "plain"]} : r \in RootInputs},
     o \in OutputNames \cup {Absent}}

ExecWorkflowInputs == UNION {[1..n -> ExecStepInputs] : n \in 1..MaxSteps}

BindingsAllStepsMutant(steps, i) ==
  {k \in DOMAIN steps : steps[k].outputAs # Absent}

\* The steps whose outputs are bound when step i is interpolated: the steps
\* before it that have an outputAs
Bindings(steps, i) == {k \in 1..(i - 1) : steps[k].outputAs # Absent}

\* The step whose output a reference to `root` in step i resolves to: the
\* last one that bound the name; 0 when the name is not bound
BoundBy(steps, i, root) ==
  LET from == {k \in Bindings(steps, i) : steps[k].outputAs = root} IN
  IF from = {} THEN 0 ELSE Max(from)

\* The steps the inputs of step i are resolved from
ResolvedFrom(steps, i) ==
  {BoundBy(steps, i, r.root) : r \in steps[i].refs} \ {0}

\* Step i has a reference that is neither bound nor rooted at user or trigger
Unresolved(steps, i) ==
  \E r \in steps[i].refs :
    r.root \notin {"user", "trigger"} /\ BoundBy(steps, i, r.root) = 0

\* An execution about to run its first step
Pending(workflow) ==
  [workflow |-> workflow, next |-> 1, status |-> "running", results |-> <<>>]

\* The next step of the execution: interpolate its inputs, resolve its
\* module, invoke it, store the result. `strict` says whether an unresolved
\* reference fails the step, `throws` whether the module's function throws.
ExecuteStep(strict, throws) ==
  /\ exec.status = "running"
  /\ exec.next <= Len(exec.workflow)
  /\ LET steps == exec.workflow
         i == exec.next
         ok == /\ steps[i].module \in validPaths
               /\ ~(strict /\ Unresolved(steps, i))
               /\ ~throws
         result == [step |-> i, module |-> steps[i].module,
                    status |-> IF ok THEN "success" ELSE "error",
                    resolvedFrom |-> ResolvedFrom(steps, i)]
     IN exec' = [exec EXCEPT
          !.results = Append(@, result),
          !.next = IF ok THEN i + 1 ELSE i,
          !.status = IF ~ok THEN "failed"
                     ELSE IF i = Len(steps) THEN "succeeded"
                     ELSE "running"]
  /\ UNCHANGED <<dedup, hook>>
  /\ UNCHANGED nonFlowVars

----------------------------------------------------------------------------
(* POST /api/automation/settings, /api/setup/save, /api/twitter/usage *)

\* No request yet, no app_settings row, no credential
NoApi ==
  [last |-> [route |-> "", session |-> FALSE, status |-> 0],
   settings |-> {}, credentials |-> {}]

Answer(route, session, status) ==
  [route |-> route, session |-> session, status |-> status]

\* The settings object of a body: absent, or its entries (key, value)
NoSettings == [given |-> FALSE, entries |-> {}]
SettingsInputs ==
  {NoSettings, [given |-> TRUE, entries |-> {<<"enabled", "true">>}]}

\* insert ... onConflictDoUpdate on key, for every entry of settings
Upsert(rows, prefix, entries) ==
  {row \in rows : \A e \in entries : row.key # <<prefix, e[1]>>}
    \cup {[key |-> <<prefix, e[1]>>, value |-> e[2]] : e \in entries}

\* POST /api/automation/settings; limited: checkStrictRateLimit answers
SettingsPost(session, limited, jobName, settings) ==
  /\ api' =
       IF limited
       THEN [api EXCEPT !.last = Answer("settings", session, 429)]
       ELSE IF ~session
       THEN [api EXCEPT !.last = Answer("settings", session, 401)]
       ELSE IF jobName = "" \/ ~settings.given
       THEN [api EXCEPT !.last = Answer("settings", session, 400)]
       ELSE [api EXCEPT !.last = Answer("settings", session, 200),
                        !.settings = Upsert(@, jobName, settings.entries)]
  /\ UNCHANGED <<nonAppVars, ctl, cron, bull>>

PLATFORM_MAP == ("OPENAI_API_KEY" :> "openai") @@ ("TWITTER_API_KEY" :> "twitter")

\* value.trim() of the values a body has here
Trim(value) ==
  CASE value = " sk-1 " -> "sk-1"
    [] value = " " -> ""
    [] OTHER -> value

\* Bodies of a setup request: key and value of its one entry
CredentialInputs ==
  {<<key, value>> : key \in {"OPENAI_API_KEY"}, value \in {" sk-1 ", " ", ""}}

\* setCredential(key, value, platform): one credential per key
SetCredential(saved, key, value, platform) ==
  {c \in saved : c.key # key}
    \cup {[key |-> key, value |-> value, platform |-> platform]}

\* POST /api/setup/save: the handler does not call auth()
SetupSave(session, credential) ==
  /\ LET key == credential[1]
         value == credential[2]
         platform == IF key \in DOMAIN PLATFORM_MAP THEN PLATFORM_MAP[key]
                     ELSE "other"
     IN api' = [api EXCEPT
                  !.last = Answer("setup", session, 200),
                  !.credentials = IF value # "" /\ Trim(value) # ""
                                  THEN SetCredential(@, key, Trim(value),
                                                     platform)
                                  ELSE @]
  /\ UNCHANGED <<nonAppVars, ctl, cron, bull>>

\* POST /api/twitter/usage up to its loop: the handler does not call auth();
\* 400 for a type other than post and read
UsagePost(session, type) ==
  /\ IF type \in UsageTypes
     THEN /\ TrackBegin(1, type)
          /\ api' = [api EXCEPT !.last = Answer("usage", session, 200)]
     ELSE /\ api' = [api EXCEPT !.last = Answer("usage", session, 400)]
          /\ UNCHANGED usageVars
  /\ UNCHANGED <<queueVars, schedVars, schedHist, aiVars, toolVars, flowVars>>
  /\ UNCHANGED <<ctl, cron, bull>>

----------------------------------------------------------------------------
(* initializeBullMQJobs *)

JOBS_QUEUE == "scheduled-jobs"

\* The first three of the six jobConfigs entries, in their order
jobConfigs ==
  << [name |-> "generate-scheduled-content", defaultSchedule |-> "0 */4 * * *",
      priority |-> 2],
     [name |-> "ai-tweet-generation", defaultSchedule |-> "0 10 * * *",
      priority |-> 1],
     [name |-> "reply-to-tweets", defaultSchedule |-> "0 */2 * * *",
      priority |-> 1] >>

\* JavaScript values of the settings
JsUndefined == [type |-> "undefined", value |-> ""]
JsBoolean(b) == [type |-> "boolean", value |-> b]
JsString(str) == [type |-> "string", value |-> str]

\* The value column of an app_settings row; NoRow when the key has no row
NoRow == "<no row>"
EnabledRows == {NoRow, "true", "false", "\"true\""}
IntervalRows == {NoRow, "\"*/5 * * * *\"", "*/5 * * * *", "\"\""}

\* The texts JSON.parse accepts here, with their values
JsonTexts ==
  ("true" :> JsBoolean("true")) @@ ("false" :> JsBoolean("false")) @@
  ("\"true\"" :> JsString("true")) @@
  ("\"*/5 * * * *\"" :> JsString("*/5 * * * *")) @@
  ("\"\"" :> JsString(""))

\* try { JSON.parse(setting.value) } catch { setting.value }
ParseSetting(raw) ==
  IF raw = NoRow THEN JsUndefined
  ELSE IF raw \in DOMAIN JsonTexts THEN JsonTexts[raw]
  ELSE JsString(raw)

\* loadJobSettings(jobName): {} when the query throws
loadJobSettings(enabledRow, intervalRow, throws) ==
  IF throws THEN [enabled |-> JsUndefined, interval |-> JsUndefined,
                  failed |-> TRUE]
  ELSE [enabled |-> ParseSetting(enabledRow),
        interval |-> ParseSetting(intervalRow), failed |-> FALSE]

\* Values that || passes over, among the values of the settings
TruthyValue(v) ==
  \/ v = JsBoolean("true")
  \/ v.type = "string" /\ v.value # ""

\* A loop that schedules every job with its default schedule
SchedulePatternDefaultMutant(dbSettings, config) == config.defaultSchedule

\* dbSettings.interval || config.defaultSchedule
SchedulePattern(dbSettings, config) ==
  IF TruthyValue(dbSettings.interval) THEN dbSettings.interval.value
  ELSE config.defaultSchedule

\* initializeBullMQJobs has not been called; Redis holds no repeatable job
BullIdle ==
  [phase |-> "idle", next |-> 1, queue |-> FALSE, worker |-> "none",
   repeat |-> {}, loaded |-> [n \in {} |-> JsUndefined], threw |-> "",
   enabledCount |-> 0, returned |-> "none"]

Returns(b, value) == [b EXCEPT !.phase = "done", !.returned = value]

\* The call up to the loop: the REDIS_URL check, createQueue, createWorker
BullBegin(queueOk, workerOk) ==
  /\ bull.phase = "idle"
  /\ bull' =
       IF ~REDIS_URL THEN Returns(bull, "false")
       ELSE IF ~queueOk THEN Returns(bull, "false")
       ELSE IF ~workerOk THEN Returns([bull EXCEPT !.queue = TRUE], "false")
       ELSE [bull EXCEPT !.phase = "scheduling", !.queue = TRUE,
                         !.worker = "created"]
  /\ UNCHANGED <<nonAppVars, ctl, cron, api>>

\* One iteration of the loop over jobConfigs
BullSchedule(enabledRow, intervalRow, loadThrows, addOk) ==
  /\ bull.phase = "scheduling"
  /\ bull.next \in DOMAIN jobConfigs
  /\ LET config == jobConfigs[bull.next]
         dbSettings == loadJobSettings(enabledRow, intervalRow, loadThrows)
         seen == [bull EXCEPT !.loaded = (config.name :> dbSettings) @@ @,
                              !.next = @ + 1]
     IN bull' =
          IF dbSettings.enabled = JsBoolean("true")
          THEN IF addOk
               THEN [seen EXCEPT
                       !.repeat = @ \cup
                          {[name |-> config.name,
                            pattern |-> SchedulePattern(dbSettings, config),
                            priority |-> config.priority]},
                       !.enabledCount = @ + 1,
                       !.phase = IF bull.next = Len(jobConfigs)
                                 THEN "starting" ELSE "scheduling"]
               ELSE Returns([seen EXCEPT !.threw = config.name], "false")
          ELSE [seen EXCEPT !.phase = IF bull.next = Len(jobConfigs)
                                      THEN "starting" ELSE "scheduling"]
  /\ UNCHANGED <<nonAppVars, ctl, cron, api>>

\* await startAllWorkers(): when it throws, the worker may have been started
BullStartWorkers(ok, started) ==
  /\ bull.phase = "starting"
  /\ bull' =
       IF ok THEN Returns([bull EXCEPT !.worker = "started"], "true")
       ELSE Returns([bull EXCEPT !.worker = IF started THEN "started"
                                            ELSE "created"], "false")
  /\ UNCHANGED <<nonAppVars, ctl, cron, api>>

----------------------------------------------------------------------------
\* The queue module when the process starts, whatever its environment
QueueStart ==
  /\ initCalled = FALSE
  /\ queues = {}
  /\ worker = FALSE
  /\ wfJobs = <<>>
  /\ calls = <<>>
  /\ chats = <<>>
  /\ effConcurrency = 0
  /\ stats = NoStats
  /\ requested = <<>>
  /\ effects = <<>>

QueueInit ==
  /\ REDIS_URL \in BOOLEAN
  /\ WORKFLOW_CONCURRENCY = <<>>
  /\ NODE_ENV = "development"
  /\ QueueStart

SchedInit ==
  /\ jobs = <<>>
  /\ tasks = <<>>
  /\ isInitialized = FALSE
  /\ lastCall = [op |-> "new", job |-> NameOnly("")]
  /\ halted = {}

\* An empty usage table at time 0, nothing tracked
UsageStart ==
  /\ usageRows = <<>>
  /\ trackers = [k \in Slots |-> Idle]
  /\ clock = 0
  /\ tracked = <<>>
  /\ lastGet = NoGet

UsageIdle == UsageStart /\ uniqueWindowType = TRUE

\* The OpenAI module with nothing in flight, after `started` calls went
\* through the limiter in the current minute and succeeded
AiAfter(started) ==
  /\ limiterQueue = <<>>
  /\ limiterRunning = 0
  /\ limiterReservoir = reservoir - started
  /\ breaker = [state |-> "closed", failures |-> 0]
  /\ aiStarted = 0
  /\ lastRequest = NoRequest
  /\ aiHist = [windowStarts |-> started, streak |-> 0]

\* The OpenAI module right after it is loaded
AiInit == AiAfter(0)

\* The validation script has not been run
ToolIdle == vrun = NoRun(<<>>)

\* The auto-fixer has not been run
FixIdle == fix = Unfixed("utilities.math.round", {"value"})

\* No execution of the deduplication workflow, and its table is empty
DedupIdle ==
  dedup = [table |-> {}, replies |-> [t \in {} |-> {}],
           runs |-> [e \in {} |-> Fetched]]

\* A workflow without a webhook secret, no request made
HookIdle == hook = NoHooks(Absent)

\* No workflow is being executed
ExecIdle == exec = [Pending(<<>>) EXCEPT !.status = "none"]

FlowIdle == DedupIdle /\ HookIdle /\ ExecIdle

\* No request to the job-control route
ApiIdle == ctl = NoControl

\* No cron callback has run
CronIdle == cron = NoCron

\* initializeBullMQJobs has not been called
BullNotCalled == bull = BullIdle

\* No request to the settings, setup and usage routes
RoutesIdle == api = NoApi

AppIdle == ApiIdle /\ CronIdle /\ BullNotCalled /\ RoutesIdle

\* Nothing happens outside the queue, the scheduler, usage tracking and the
\* OpenAI module
RestIdle == ToolIdle /\ FixIdle /\ FlowIdle /\ AppIdle

Init == QueueInit /\ SchedInit /\ UsageIdle /\ AiInit /\ RestIdle

\* The scheduler on its own: a process without a queue backend
SchedOnlyInit ==
  QueueInit /\ ~REDIS_URL /\ SchedInit /\ UsageIdle /\ AiInit /\ RestIdle

InitOutcomes == {"ok", "createQueueThrows", "createWorkerThrows"}

QueueNext ==
  \/ \E o \in InitOutcomes : InitializeWorkflowQueue(o, concurrency)
  \/ \E t \in TriggerInputs, p \in PriorityInputs, d \in DelayInputs,
        r \in ExecOutcomes, a \in BOOLEAN :
       QueueWorkflowExecution(t, p, d, r, a) /\ UNCHANGED histVars
  \/ \E j \in DOMAIN wfJobs : WorkerTake(j)
  \/ \E j \in DOMAIN wfJobs, r \in ExecOutcomes :
       ProcessJob(j, r) /\ UNCHANGED histVars
  \/ \E j \in DOMAIN wfJobs : PromoteDelayed(j)

QueueSpec == Init /\ [][QueueNext]_vars

\* The chat route beside the callers of queueWorkflowExecution
ChatNext ==
  \/ \E o \in InitOutcomes : InitializeWorkflowQueue(o, concurrency)
  \/ \E t \in TriggerInputs, p \in PriorityInputs, d \in DelayInputs,
        r \in ExecOutcomes, a \in BOOLEAN :
       QueueWorkflowExecution(t, p, d, r, a) /\ UNCHANGED histVars
  \/ \E f \in BOOLEAN : ChatPost(f)

ChatSpec == Init /\ [][ChatNext]_vars

\* The worker and its queue, with the history of priorities and step runs
WorkerInit == Init /\ REDIS_URL

WorkerNext ==
  \/ \E o \in InitOutcomes : InitializeWorkflowQueue(o, concurrency)
  \/ \E p \in PriorityInputs : EnqueueWithPriority(p)
  \/ \E j \in DOMAIN wfJobs : WorkerTake(j)
  \/ \E j \in DOMAIN wfJobs, r \in ExecOutcomes : ProcessJobCounted(j, r)
  \/ \E j \in DOMAIN wfJobs : PromoteDelayed(j)

WorkerSpec == WorkerInit /\ [][WorkerNext]_vars

\* process.env.WORKFLOW_CONCURRENCY as its characters, <<>> when unset
EnvInputs == { <<>>, <<"1">>, <<"0">>, <<"a", "b", "c">> }
NodeEnvInputs == {"production", "development"}

\* options.concurrency of initializeWorkflowQueue
ConcurrencyInputs == {Undefined, 0, 1, -2}

\* The worker under every environment and every concurrency option
ConcInit ==
  /\ REDIS_URL = TRUE
  /\ WORKFLOW_CONCURRENCY \in EnvInputs
  /\ NODE_ENV \in NodeEnvInputs
  /\ QueueStart
  /\ SchedInit
  /\ UsageIdle
  /\ AiInit
  /\ RestIdle

ConcNext ==
  \/ \E o \in InitOutcomes, c \in ConcurrencyInputs :
       InitializeWorkflowQueue(o, c)
  \/ QueueWorkflowExecution("manual", Undefined, Undefined, OkResult, TRUE)
       /\ UNCHANGED histVars
  \/ \E j \in DOMAIN wfJobs : WorkerTake(j)
  \/ \E j \in DOMAIN wfJobs : ProcessJob(j, OkResult) /\ UNCHANGED histVars

ConcSpec == ConcInit /\ [][ConcNext]_vars

\* The queue and its worker while getWorkflowQueueStats reads the counts
StatsNext ==
  \/ \E o \in InitOutcomes : InitializeWorkflowQueue(o, concurrency)
  \/ QueueWorkflowExecution("manual", Undefined, Undefined, OkResult, TRUE)
       /\ UNCHANGED histVars
  \/ \E j \in DOMAIN wfJobs : WorkerTake(j)
  \/ \E j \in DOMAIN wfJobs, r \in {OkResult, Thrown} :
       ProcessJob(j, r) /\ UNCHANGED histVars
  \/ \E j \in DOMAIN wfJobs : PromoteDelayed(j)
  \/ GetWorkflowQueueStats
  \/ StatsRead

StatsSpec == WorkerInit /\ [][StatsNext]_vars

\* Usage tracking on its own, with or without the unique index
UsageInit ==
  /\ QueueInit /\ ~REDIS_URL
  /\ SchedInit
  /\ UsageStart
  /\ uniqueWindowType \in BOOLEAN
  /\ AiInit
  /\ RestIdle

\* Track operations in progress at once, and the clock
UsageNext ==
  \/ \E k \in Slots, t \in UsageTypes : TrackStart(k, t)
  \/ \E k \in Slots : TrackSelect(k)
  \/ \E k \in Slots : TrackWrite(k)
  \/ Tick

UsageSpec == UsageInit /\ [][UsageNext]_vars

\* Track operations one after another (one slot is used), and GET
UsageSeqNext ==
  \/ \E t \in UsageTypes : TrackStart(1, t)
  \/ TrackSelect(1)
  \/ TrackWrite(1)
  \/ Tick
  \/ UsageGet

UsageSeqSpec == UsageInit /\ [][UsageSeqNext]_vars

\* Track operations one after another during a little more than an hour:
\* the clock moves by a quarter of an hour or by just under an hour
WaitInputs == {2, 7}

UsageHourNext ==
  \/ \E t \in UsageTypes : TrackStart(1, t)
  \/ TrackSelect(1)
  \/ TrackWrite(1)
  \/ \E d \in WaitInputs : Elapse(d, MaxHourClock)
  \/ UsageGet

UsageHourSpec == UsageInit /\ [][UsageHourNext]_vars

\* The OpenAI module on its own
AiNext ==
  \/ \E fn \in ExportedFunctions : AiCall(fn)
  \/ LimiterAdmit
  \/ \E o \in {"ok", "error", "timeout"} : ApiRespond(o)
  \/ BreakerHalfOpen
  \/ ReservoirRefresh

AiSpec == SchedOnlyInit /\ [][AiNext]_vars

\* Calls already started in the current minute, up to the whole reservoir
StartedInputs == {0, reservoir - maxConcurrent, reservoir - 1, reservoir}

\* The OpenAI module at any point of a minute's quota
AiQuotaInit ==
  /\ QueueInit /\ ~REDIS_URL
  /\ SchedInit
  /\ UsageIdle
  /\ \E n \in StartedInputs : AiAfter(n)
  /\ RestIdle

AiQuotaSpec == AiQuotaInit /\ [][AiNext]_vars

\* The validation script started on any workflow document
ValidateInit ==
  /\ QueueInit /\ ~REDIS_URL
  /\ SchedInit
  /\ UsageIdle
  /\ AiInit
  /\ vrun \in {NoRun(w) : w \in WorkflowInputs}
  /\ FixIdle
  /\ FlowIdle
  /\ AppIdle

ValidateNext ==
  \E parses \in BOOLEAN, structureValid \in BOOLEAN :
    validateWorkflow(parses, structureValid)

ValidateSpec == ValidateInit /\ [][ValidateNext]_vars

\* Two executions of the deduplication workflow have fetched the same
\* items; replied_tweets is empty
DedupInit ==
  /\ QueueInit /\ ~REDIS_URL
  /\ SchedInit
  /\ UsageIdle
  /\ AiInit
  /\ ToolIdle
  /\ AppIdle
  /\ FixIdle
  /\ dedup = [table |-> {},
              replies |-> [k \in {Items[n] : n \in DOMAIN Items} |-> {}],
              runs |-> [e \in Executions |-> Fetched]]
  /\ HookIdle
  /\ ExecIdle

DedupNext ==
  \/ \E e \in Executions : CheckDuplicates(e)
  \/ \E e \in Executions : FilterNew(e)
  \/ \E e \in Executions : PostReply(e)
  \/ \E e \in Executions : StoreReplied(e)

DedupSpec == DedupInit /\ [][DedupNext]_vars

\* The auto-fixer started on a step of any of the modules, with any
\* parameter names
FixInit ==
  /\ QueueInit /\ ~REDIS_URL
  /\ SchedInit
  /\ UsageIdle
  /\ AiInit
  /\ ToolIdle
  /\ AppIdle
  /\ FlowIdle
  /\ fix \in {Unfixed(m, keys) :
               m \in FixModules, keys \in (SUBSET KeyInputs) \ {{}}}

FixNext == \E overwrite \in BOOLEAN : AutoFix(overwrite)

FixSpec == FixInit /\ [][FixNext]_vars

\* An active webhook workflow, with or without a secret
HookInit ==
  /\ QueueInit /\ ~REDIS_URL
  /\ SchedInit
  /\ UsageIdle
  /\ AiInit
  /\ ToolIdle
  /\ AppIdle
  /\ FixIdle
  /\ DedupIdle
  /\ hook \in {NoHooks(k) : k \in SecretInputs \cup {Absent}}
  /\ ExecIdle

HookNext ==
  \E b \in PayloadInputs, sig \in SignatureInputs,
     overLimit \in BOOLEAN, limitFirst \in BOOLEAN :
    WebhookPost(b, sig, overLimit, limitFirst)

HookSpec == HookInit /\ [][HookNext]_vars

\* An execution of any workflow of plain steps, about to start
ExecInit ==
  /\ QueueInit /\ ~REDIS_URL
  /\ SchedInit
  /\ UsageIdle
  /\ AiInit
  /\ ToolIdle
  /\ AppIdle
  /\ FixIdle
  /\ DedupIdle
  /\ HookIdle
  /\ exec \in {Pending(w) : w \in ExecWorkflowInputs}

ExecNext == \E strict \in BOOLEAN, throws \in BOOLEAN : ExecuteStep(strict, throws)

ExecSpec == ExecInit /\ [][ExecNext]_vars

SchedNext ==
  \/ \E job \in JobInputs : Register(job) /\ UNCHANGED halted
  \/ \E job \in JobInputs : RegisterOrUpdate(job) /\ UNCHANGED halted
  \/ Start /\ UNCHANGED halted
  \/ Stop /\ UNCHANGED halted
  \/ \E n \in Names : Unregister(n) /\ UNCHANGED halted
  \/ \E n \in Names : StartJob(n) /\ UNCHANGED halted
  \/ \E n \in Names : StopJob(n) /\ UNCHANGED halted

SchedSpec == SchedOnlyInit /\ [][SchedNext]_vars

\* The Scheduler when nothing is ever stopped or unregistered
SchedRegNext ==
  \/ \E job \in JobInputs : Register(job) /\ UNCHANGED halted
  \/ \E job \in JobInputs : RegisterOrUpdate(job) /\ UNCHANGED halted
  \/ Start /\ UNCHANGED halted

SchedRegSpec == SchedOnlyInit /\ [][SchedRegNext]_vars

\* The Scheduler with the history of stopJob
SchedHaltNext ==
  \/ \E job \in JobInputs : Register(job) /\ UNCHANGED halted
  \/ \E job \in JobInputs : RegisterOrUpdateNoted(job)
  \/ Start /\ UNCHANGED halted
  \/ Stop /\ UNCHANGED halted
  \/ \E n \in Names : UnregisterNoted(n)
  \/ \E n \in Names : StartJobNoted(n)
  \/ \E n \in Names : StopJobNoted(n)

SchedHaltSpec == SchedOnlyInit /\ [][SchedHaltNext]_vars

\* The scheduler while node-cron fires the started tasks
CronJobs ==
  {job \in JobInputs :
     job.schedule = <<"*", "*", "*", "*", "*">> /\ job.enabled = "true"}

CronNext ==
  \/ \E job \in CronJobs : RegisterOrUpdate(job) /\ UNCHANGED halted
  \/ \E i \in DOMAIN tasks : CronFire(i)
  \/ \E r \in DOMAIN cron.runs, o \in TaskOutcomes : TaskSettle(r, o)
  \/ \E r \in DOMAIN cron.runs, ok \in BOOLEAN : InsertSettle(r, ok)

CronSpec == SchedOnlyInit /\ [][CronNext]_vars

\* The job-control route on a scheduler that the process starts and stops
ControlNext ==
  \/ \E session \in BOOLEAN, action \in ActionInputs, n \in JobNameInputs,
        interval \in IntervalInputs, stored \in StoredInputs :
       ControlPost(session, action, n, interval, stored)
  \/ Start /\ UNCHANGED halted
  \/ Stop /\ UNCHANGED halted

ControlSpec == SchedOnlyInit /\ [][ControlNext]_vars

\* The four state-changing routes, with and without a session
ApiNext ==
  \/ \E session \in BOOLEAN, action \in {"start", "stop"} :
       ControlPost(session, action, "reply-to-tweets",
                   <<"*/5", "*", "*", "*", "*">>, NoSchedule)
  \/ \E session \in BOOLEAN, limited \in BOOLEAN,
        jobName \in {"", "reply-to-tweets"}, settings \in SettingsInputs :
       SettingsPost(session, limited, jobName, settings)
  \/ \E session \in BOOLEAN, credential \in CredentialInputs :
       SetupSave(session, credential)
  \/ \E session \in BOOLEAN, type \in {"post", "other"} :
       UsagePost(session, type)
  \/ TrackSelect(1)
  \/ TrackWrite(1)

ApiSpec == SchedOnlyInit /\ [][ApiNext]_vars

\* initializeBullMQJobs, called once when the process starts
BullNext ==
  \/ \E queueOk \in BOOLEAN, workerOk \in BOOLEAN :
       BullBegin(queueOk, workerOk)
  \/ \E enabledRow \in EnabledRows, intervalRow \in IntervalRows,
        loadThrows \in BOOLEAN, addOk \in BOOLEAN :
       BullSchedule(enabledRow, intervalRow, loadThrows, addOk)
  \/ \E ok \in BOOLEAN, started \in BOOLEAN : BullStartWorkers(ok, started)

BullSpec == Init /\ [][BullNext]_vars

----------------------------------------------------------------------------
(* Properties of the workflow queue, checked under QueueSpec *)

\* C1: a queued job is run at most 3 times; attempts fail, fail, succeed end
\* in completed with 3 attempts made; three failing attempts end in failed
\* and the job is not run again; a job is completed only by a successful run.
C1_AtMostThreeAttempts ==
  \A j \in DOMAIN wfJobs :
    LET job == wfJobs[j] IN
    /\ Len(job.runs) <= 3
    /\ job.attemptsMade = Len(job.runs)
    /\ job.runs = <<FALSE, FALSE, TRUE>> =>
         job.state = "completed" /\ job.attemptsMade = 3
    /\ job.runs = <<FALSE, FALSE, FALSE>> => job.state = "failed"
    /\ job.state = "completed" => job.runs[Len(job.runs)]
    /\ job.state = "failed" => job.runs = <<FALSE, FALSE, FALSE>>

C1_Witness ==
  /\ \E j \in DOMAIN wfJobs :
       wfJobs[j].runs = <<FALSE, FALSE, TRUE>> /\ wfJobs[j].state = "completed"
  /\ \E j \in DOMAIN wfJobs :
       wfJobs[j].runs = <<FALSE, FALSE, FALSE>> /\ wfJobs[j].state = "failed"

\* C2: without REDIS_URL every queueWorkflowExecution call runs the workflow
\* exactly once inside the call, adds no job, and, whatever result the
\* executor returns (success or failure), returns jobId 'direct-execution'
\* with queued = false.
C2_DirectExecutionOnce ==
  ~REDIS_URL =>
    /\ wfJobs = <<>>
    /\ \A i \in DOMAIN calls :
         /\ calls[i].execs = 1
         /\ ~calls[i].jobAdded
         /\ calls[i].result.kind = "result" =>
              /\ calls[i].outcome = "returned"
              /\ calls[i].ret = [jobId |-> "direct-execution", queued |-> FALSE]

C2_Witness ==
  /\ ~REDIS_URL
  /\ \E i \in DOMAIN calls :
       /\ calls[i].result.kind = "result"
       /\ ~calls[i].result.success
       /\ calls[i].execs = 1
       /\ calls[i].outcome = "returned"

\* C3: when REDIS_URL is set but the queue is missing or adding the job
\* fails, the call reports the error and still executes the workflow.
C3_UnavailableBackendFallsBack ==
  \A i \in DOMAIN calls :
    calls[i].mode \in {"uninitialized", "addFailed"} =>
      calls[i].errorLogged /\ calls[i].execs >= 1

\* C4: a direct-mode call whose execution failed hands the caller the failing
\* step id and the error message, and what it returns differs from what a
\* successful direct run returns.
C4_DirectResultReported ==
  \A i \in DOMAIN calls :
    (calls[i].mode = "direct" /\ calls[i].outcome = "returned"
       /\ ~calls[i].result.success) =>
      /\ "errorStep" \in DOMAIN calls[i].ret
      /\ calls[i].ret # DirectCall(calls[i].triggerType, OkResult).ret

\* C5: every trigger event makes exactly one enqueue call and runs nothing
\* inline; stated for the chat route: a chat request that found its workflow
\* made one enqueue call and no inline execution.  Checked under ChatSpec.
C5_ChatTriggerEnqueues ==
  \A i \in DOMAIN chats :
    chats[i].status = 200 =>
      chats[i].enqueueCalls = 1 /\ chats[i].inlineExecs = 0

----------------------------------------------------------------------------
(* Properties of the worker, checked under WorkerSpec *)

C12_FailedStepHaltsAttempt ==
  \A j \in DOMAIN wfJobs :
    LET job == wfJobs[j] IN
    (job.lastResult.kind = "result" /\ ~job.lastResult.success) =>
      /\ job.state # "completed"
      /\ job.failedReason = [message |-> job.lastResult.error,
                             step |-> job.lastResult.errorStep]
      /\ \A s \in job.lastStarted :
           StepIndex(s) <= StepIndex(job.lastResult.errorStep)

\* a job whose attempt failed at step 2 of 3 waits for its retry
C12_Witness ==
  \E j \in DOMAIN wfJobs :
    /\ wfJobs[j].lastResult = FailResult("step2")
    /\ wfJobs[j].state = "delayed"
    /\ wfJobs[j].lastStarted = {"step1", "step2"}
    /\ wfJobs[j].failedReason.step = "step2"

\* The priority a caller asked for, 5 when it gave none
RequestedPriority(j) == IF requested[j] = Undefined THEN 5 ELSE requested[j]

\* C13: the worker starts a waiting job only if no waiting job was enqueued
\* with a lower options.priority number (5 standing for no priority), for
\* every priority value including 0.
C13_LowerPriorityNumberFirst ==
  [][ \A j \in DOMAIN wfJobs :
        (wfJobs[j].state = "waiting" /\ wfJobs'[j].state = "active") =>
          \A i \in DOMAIN wfJobs :
            wfJobs[i].state = "waiting" =>
              RequestedPriority(i) >= RequestedPriority(j) ]_vars

\* C14: a job delayed after its k-th failed attempt waits 10 s doubled k-1
\* times, and the nextRetryIn the failed listener logged (in seconds) is that
\* delay.
C14_LoggedBackoffIsApplied ==
  \A j \in DOMAIN wfJobs :
    (wfJobs[j].state = "delayed" /\ wfJobs[j].attemptsMade >= 1) =>
      /\ wfJobs[j].retryDelay = 10000 * 2^(wfJobs[j].attemptsMade - 1)
      /\ wfJobs[j].nextRetryIn * 1000 = wfJobs[j].retryDelay

----------------------------------------------------------------------------
(* Properties of the worker's concurrency, checked under ConcSpec *)

\* C15: once initializeWorkflowQueue has run, the effective concurrency is a
\* positive integer and the worker never executes more jobs at once.
C15_ConcurrencyCeiling ==
  initCalled =>
    /\ effConcurrency # NaN
    /\ effConcurrency >= 1
    /\ ActiveCount <= effConcurrency

----------------------------------------------------------------------------
(* Properties of getWorkflowQueueStats, checked under StatsSpec *)

\* C16: getWorkflowQueueStats returns null exactly when the workflow queue
\* is not initialized; otherwise each count it reads is the number of jobs
\* in that state, and the record it returns has total = waiting + active +
\* delayed.
C16_StatsCountsAndTotal ==
  [][ /\ (stats.pc = 0 /\ stats' # stats) =>
           (stats'.null <=> WORKFLOW_QUEUE_NAME \notin queues)
      /\ \A k \in DOMAIN StatsFields :
           (stats.pc = k /\ stats'.pc # k) =>
             stats'[StatsFields[k]] = CountState(StatsFields[k])
      /\ (stats.pc = Len(StatsFields) /\ stats'.pc = 0) =>
           /\ stats'.called /\ ~stats'.null
           /\ stats'.total =
                stats'.waiting + stats'.active + stats'.delayed ]_vars

\* a call has returned the counts of a queue holding a completed job, which
\* is outside the total, and a delayed one, which is inside
C16_Witness ==
  /\ stats.called /\ ~stats.null /\ stats.pc = 0
  /\ stats.completed = 1 /\ CountState("completed") = 1
  /\ stats.delayed = 1 /\ CountState("delayed") = 1
  /\ stats.waiting = 0 /\ stats.active = 0 /\ stats.failed = 0
  /\ stats.total = 1

----------------------------------------------------------------------------
(* Properties of Twitter usage tracking *)

\* The track operations of one type whose time is from..to
TrackedIn(type, from, to) ==
  Cardinality({i \in DOMAIN tracked :
                 /\ tracked[i].type = type
                 /\ tracked[i].at >= from
                 /\ tracked[i].at <= to})

\* C17: no window ever has a second row, and once no track operation is in
\* progress the row of every window counts every operation whose time is at
\* or after the start of that window, and no more operations than were
\* tracked.  Checked under UsageSpec.
C17_TrackingAtomic ==
  /\ \A w \in DOMAIN Windows : Cardinality(RowsOf(Windows[w].type)) <= 1
  /\ (\A k \in Slots : trackers[k] = Idle) =>
       \A i \in DOMAIN usageRows :
         /\ usageRows[i].postsCount >=
              TrackedIn("post", usageRows[i].windowStart, MaxClock)
         /\ usageRows[i].postsCount <= TrackedIn("post", 0, MaxClock)
         /\ usageRows[i].readsCount >=
              TrackedIn("read", usageRows[i].windowStart, MaxClock)
         /\ usageRows[i].readsCount <= TrackedIn("read", 0, MaxClock)

\* A count agrees with the operations of one type tracked during the last
\* `duration` ticks, whether or not an operation exactly `duration` old counts
InLastWindow(count, type, duration) ==
  /\ count >= TrackedIn(type, clock - duration + 1, clock)
  /\ count <= TrackedIn(type, clock - duration, clock)

\* C18: a GET answered while no track operation is in progress reports for
\* every window and type the number of operations tracked during the
\* window's length before the request.  Checked under UsageSeqSpec.
C18_ReportsLastWindow ==
  [][ (lastGet' # lastGet /\ trackers[1] = Idle) =>
        \A w \in DOMAIN Windows :
          /\ InLastWindow(lastGet'.postUsage[w], "post", Windows[w].duration)
          /\ InLastWindow(lastGet'.readUsage[w], "read", Windows[w].duration)
    ]_vars

----------------------------------------------------------------------------
(* Properties of the OpenAI module, checked under AiSpec *)

\* C19: every API request of an exported function was admitted by the rate
\* limiter and passed the circuit breaker.
C19_AllCallsProtected ==
  lastRequest.kind = "api" => lastRequest.limited /\ lastRequest.guarded

\* C20: a call through createCompletion reaches the circuit breaker only after the
\* rate limiter admitted it; its API request starts only while the circuit
\* is not open and runs under the 60 s timeout; a call the breaker rejects
\* met an open circuit and made no request.
C20_LimiterThenBreakerThenTimeout ==
  Delegate(lastRequest.fn) = "createCompletion" =>
    /\ lastRequest.limited
    /\ lastRequest.kind = "api" =>
         /\ lastRequest.guarded
         /\ lastRequest.circuit # "open"
         /\ lastRequest.timeout = 60000
    /\ lastRequest.kind = "rejected" => lastRequest.circuit = "open"

\* the limiter has admitted a createCompletion call that five failures of
\* earlier calls had opened the circuit for, and the breaker rejected it
C20_Witness ==
  /\ lastRequest.fn = "createCompletion"
  /\ lastRequest.kind = "rejected"
  /\ lastRequest.limited
  /\ breaker.state = "open"
  /\ limiterReservoir = reservoir - 6

\* C21: the one rate limiter of the module serves every caller: at most 5
\* createCompletion calls are in flight at once and at most 500 are started
\* in a minute of the limiter; a call that arrives is either held by the
\* limiter or (for a function outside it) sent at once, never failed, and a
\* held call leaves the limiter only as its oldest call, when fewer than 5
\* are in flight and fewer than 500 were started this minute.
C21_SharedLimiterDelays ==
  [][ /\ limiterRunning' <= 5
      /\ aiHist'.windowStarts <= 500
      /\ aiStarted' # aiStarted =>
            \/ /\ Len(limiterQueue') = Len(limiterQueue) + 1
               /\ SubSeq(limiterQueue', 1, Len(limiterQueue)) = limiterQueue
               /\ Delegate(limiterQueue'[Len(limiterQueue')])
                    = "createCompletion"
               /\ lastRequest' = lastRequest
            \/ /\ limiterQueue' = limiterQueue
               /\ lastRequest'.kind = "api"
               /\ Delegate(lastRequest'.fn) # "createCompletion"
      /\ Len(limiterQueue') < Len(limiterQueue) =>
            /\ limiterQueue' = Tail(limiterQueue)
            /\ limiterRunning < 5
            /\ aiHist.windowStarts < 500
            /\ lastRequest'.fn = Head(limiterQueue)
            /\ lastRequest'.limited
            /\ lastRequest'.kind \in {"api", "rejected"} ]_vars

\* 495 calls were started earlier in the minute; five more are in flight,
\* which uses up both quotas, and a sixth call waits in the limiter
C21_Witness ==
  /\ limiterRunning = 5
  /\ aiHist.windowStarts = 500
  /\ limiterReservoir = 0
  /\ Len(limiterQueue) = 1
  /\ Delegate(Head(limiterQueue)) = "createCompletion"

\* C22: the fifth failure in a row of createCompletion's API call leaves the
\* circuit open, and a call that reaches the open circuit is rejected
\* without an API request being made for it.
C22_FiveFailuresOpenCircuit ==
  [][ /\ (aiHist'.streak # aiHist.streak /\ aiHist'.streak >= 5)
            => breaker'.state = "open"
      /\ (Len(limiterQueue') < Len(limiterQueue) /\ breaker.state = "open")
            => /\ lastRequest'.kind = "rejected"
               /\ lastRequest'.fn = Head(limiterQueue)
               /\ limiterRunning' = limiterRunning ]_vars

\* five calls have failed in a row, nothing is in flight, and the sixth call
\* was rejected by the open circuit
C22_Witness ==
  /\ aiHist.streak = 5
  /\ breaker.state = "open"
  /\ limiterRunning = 0
  /\ aiStarted = 6
  /\ lastRequest.kind = "rejected"

----------------------------------------------------------------------------
(* Properties of scripts/validate-workflow.ts, checked under ValidateSpec *)

\* Step i of the workflow references {{name}} where name is an output name
\* that only a later step binds, or no step
ReferencesUnbound(steps, i) ==
  \E r \in steps[i].refs :
    /\ r.form = "plain"
    /\ r.root \in OutputNames
    /\ r.root \notin {steps[k].outputAs : k \in 1..i}

\* C23: a validation run of a workflow in which a step's inputs reference
\* {{name}}, name being the outputAs of a later step or of no step, ends as a
\* failure (non-zero exit) and not as a completed validation.
C23_UnboundReferenceFails ==
  (vrun.exit # NotRun /\
     \E i \in DOMAIN vrun.workflow : ReferencesUnbound(vrun.workflow, i))
    => (vrun.exit # 0 /\ vrun.stage # "complete")

\* The roots an expression may have without a step binding them
BuiltInRoots == {"trigger", "credential", "user"}

\* C37: validateVariableReferences reports a reference {{root...}} of step i
\* as undeclared exactly when root is not the outputAs of a step before i
\* and not one of trigger, credential, user; a reference rooted at trigger
\* or credential is never reported, one to the step's own outputAs is.
C37_UndeclaredExactly ==
  vrun.stage = "complete" =>
    \A i \in DOMAIN vrun.workflow :
      \A r \in vrun.workflow[i].refs :
        <<i, r.root>> \in vrun.varErrors
          <=> /\ r.root \notin {vrun.workflow[k].outputAs : k \in 1..(i - 1)}
              /\ r.root \notin BuiltInRoots

\* Some step of the workflow, at the top level or inside a block, names a
\* module path that is not a path of the registry
NamesUnregistered(steps) ==
  \E i \in DOMAIN steps :
    \/ steps[i].type = "plain" /\ steps[i].module \notin validPaths
    \/ \E j \in DOMAIN steps[i].steps :
         steps[i].steps[j].module \notin validPaths

\* C24: a validation run that gets to the module path check fails there
\* (exit code 1) exactly when some step of the workflow, top-level or nested
\* in a block, names a module path that is not in the registry.
C24_UnregisteredModuleFails ==
  vrun.stage \notin {"none", "parse", "structure"} =>
    ((vrun.stage = "modules" /\ vrun.exit = 1)
       <=> NamesUnregistered(vrun.workflow))

----------------------------------------------------------------------------
(* Properties of the auto-fixer's parameter pass, checked under FixSpec *)

\* C26: a pass over a step whose inputs are exactly the module's own
\* parameters, each with a written value, changes nothing; a second pass
\* changes nothing the first left; and the result never has a renamed
\* parameter next to the name it is renamed to, nor a placeholder for a
\* parameter the author gave a value under either name.
C26_NormalizationConservative ==
  fix.passes >= 1 =>
    /\ (DOMAIN fix.before = Signature(fix.module) /\
         \A k \in DOMAIN fix.before : fix.before[k] # FIXME)
          => fix.after = fix.before
    /\ fix.passes = 2 => fix.after = fix.before
    /\ \A k \in DOMAIN fix.after :
          AliasOf(k) # k => AliasOf(k) \notin DOMAIN fix.after
    /\ \A k \in DOMAIN fix.after :
          fix.after[k] = FIXME =>
            \A j \in DOMAIN fix.written : j # k /\ AliasOf(j) # k /\ AliasOf(k) # j

----------------------------------------------------------------------------
(* Properties of the webhook route, checked under HookSpec *)

----------------------------------------------------------------------------
(* Properties of the step executor, checked under ExecSpec *)

----------------------------------------------------------------------------
(* Properties of the deduplication workflow, checked under DedupSpec *)

\* C25: with query, filter, then reply and insert per item, two executions
\* that process the same items concurrently never both process an item: the
\* filter of the one excludes what the other inserted.
C25_NoItemProcessedTwice ==
  \A t \in DOMAIN dedup.replies : Cardinality(dedup.replies[t]) <= 1

----------------------------------------------------------------------------
(* Properties of the Scheduler, checked under SchedSpec *)

Valid(job) == Validate(job.schedule) /\ job.enabled # "false"

\* C6: registerOrUpdate of a registered name with enabled !== false keeps the
\* name registered: with the new schedule in a new task when the job is
\* accepted, and with the previous task untouched otherwise.
C6_RegisterOrUpdateAtomic ==
  [][ (lastCall'.op = "registerOrUpdate"
         /\ lastCall'.job.name \in DOMAIN jobs
         /\ lastCall'.job.enabled # "false") =>
        LET n == lastCall'.job.name IN
        /\ n \in DOMAIN jobs'
        /\ IF Validate(lastCall'.job.schedule)
           THEN /\ jobs'[n] \notin DOMAIN tasks
                /\ tasks'[jobs'[n]].schedule = lastCall'.job.schedule
           ELSE /\ jobs'[n] = jobs[n]
                /\ tasks'[jobs[n]] = tasks[jobs[n]] ]_vars

\* C7: right after registerOrUpdate(job) with a valid schedule and
\* enabled !== false the job is registered under its name with that schedule
\* and task function, its task is started, and isRunning() is true.
C7_RegisterOrUpdateStarts ==
  (lastCall.op = "registerOrUpdate" /\ Valid(lastCall.job)) =>
    LET n == lastCall.job.name IN
    /\ n \in DOMAIN jobs
    /\ tasks[jobs[n]].running
    /\ tasks[jobs[n]].schedule = lastCall.job.schedule
    /\ tasks[jobs[n]].fn = lastCall.job.fn
    /\ isRunning

\* registerOrUpdate has just started a job in a scheduler whose other job
\* is stopped (start() never called, or stop() called before)
C7_Witness ==
  /\ lastCall.op = "registerOrUpdate"
  /\ Valid(lastCall.job)
  /\ tasks[jobs[lastCall.job.name]].running
  /\ \E m \in DOMAIN jobs : ~tasks[jobs[m]].running

\* C8: register with an invalid cron expression changes nothing: the job
\* map, every task and the isRunning() flag stay as they were; and no task
\* with an invalid expression ever exists, so nothing is left to reject when
\* a job fires.
C8_InvalidRegisterIsNoOp ==
  [][ /\ (lastCall'.op = "register" /\ ~Validate(lastCall'.job.schedule)) =>
           /\ jobs' = jobs
           /\ tasks' = tasks
           /\ isInitialized' = isInitialized
      /\ \A i \in DOMAIN tasks' : Validate(tasks'[i].schedule) ]_vars

\* an enabled job with an invalid expression and a free name was just
\* rejected while another job is registered
C8_Witness ==
  /\ lastCall.op = "register"
  /\ ~Validate(lastCall.job.schedule)
  /\ lastCall.job.enabled # "false"
  /\ lastCall.job.name \notin DOMAIN jobs
  /\ jobs # <<>>

\* C9: register with a name that is in the job map changes nothing: the
\* registration keeps its task, schedule and started/stopped state, and no
\* task is created.
C9_DuplicateRegisterRejected ==
  [][ (lastCall'.op = "register" /\ lastCall'.job.name \in DOMAIN jobs) =>
        /\ jobs' = jobs
        /\ tasks' = tasks
        /\ isInitialized' = isInitialized ]_vars

\* an acceptable job with another schedule was just rejected for its name,
\* and the registration it met is running on its old schedule
C9_Witness ==
  /\ lastCall.op = "register"
  /\ Valid(lastCall.job)
  /\ lastCall.job.name \in DOMAIN jobs
  /\ tasks[jobs[lastCall.job.name]].schedule # lastCall.job.schedule
  /\ tasks[jobs[lastCall.job.name]].running

\* C10: start() and stop() are idempotent: in the state right after start()
\* a second start() changes nothing (job map, tasks, isRunning()), and the
\* same for stop().
C10_StartStopIdempotent ==
  /\ lastCall.op = "start" => StartF(Sched) = Sched
  /\ lastCall.op = "stop" => StopF(Sched) = Sched

\* start() has just started two registered jobs
C10_Witness ==
  /\ lastCall.op = "start"
  /\ Cardinality(DOMAIN jobs) = 2
  /\ \A n \in DOMAIN jobs : tasks[jobs[n]].running

\* C29: with register, registerOrUpdate and start only, whenever isRunning()
\* is true every job of the job map has its task started.
C29_RunningMeansAllStarted ==
  isRunning => \A n \in DOMAIN jobs : tasks[jobs[n]].running

\* C30: a job that stopJob stopped while it ran, and that neither startJob
\* nor registerOrUpdate has been called for since, is not running: stop()
\* followed by start() does not restart it.
C30_StoppedJobStaysStopped ==
  \A n \in halted : n \in DOMAIN jobs => ~tasks[jobs[n]].running

\* C31: after any sequence of Scheduler calls every started cron task is the
\* one the job map holds under its name, so a task that was replaced or
\* unregistered never keeps firing and at most one task per name is started.
C31_StartedTaskIsMapped ==
  /\ \A i \in DOMAIN tasks :
       tasks[i].running => Has(Sched, tasks[i].name) /\ jobs[tasks[i].name] = i
  /\ \A i, k \in DOMAIN tasks :
       tasks[i].running /\ tasks[k].running /\ tasks[i].name = tasks[k].name
         => i = k

\* A running job was replaced by registerOrUpdate: its old task is stopped
\* and out of the map, the new one runs; another job's task was unregistered
C31_Witness ==
  /\ lastCall.op = "unregister"
  /\ \E i, k \in DOMAIN tasks :
       /\ i < k
       /\ tasks[i].name = tasks[k].name
       /\ Has(Sched, tasks[k].name) /\ jobs[tasks[k].name] = k
       /\ tasks[k].running
  /\ \E i \in DOMAIN tasks : ~Has(Sched, tasks[i].name)

\* C32: the stop action of POST /api/jobs/control answers with success for
\* a known job name, and its wasRunning field is true exactly when the
\* job's task was running before the call, so that a second consecutive
\* stop of the same job reports wasRunning = false.
C32_WasRunningIsExact ==
  (ctl.session /\ ctl.action = "stop" /\ ctl.jobName \in DOMAIN JOB_TASKS)
    => /\ ctl.status = 200
       /\ ctl.wasRunning = ctl.ranBefore

\* C33: a task that throws during a scheduled run never propagates its error
\* out of the cron callback and neither stops nor unregisters a job; each
\* run attempts exactly one job-log write, with status success or error, and
\* a failing log write is swallowed as well.
C33_RunInv ==
  /\ \A r \in DOMAIN cron.runs :
       LET run == cron.runs[r]
       IN /\ ~run.escaped
          /\ run.at = "task" => run.inserts = 0
          /\ run.at \in {"insert", "done"}
               => run.inserts = 1 /\ run.status \in {"success", "error"}
  /\ \A row \in cron.logs :
       /\ row.status = cron.runs[row.run].status
       /\ \A other \in cron.logs : other.run = row.run => other = row

C33_ThrowingTaskContained ==
  /\ []C33_RunInv
  /\ [][cron' # cron => UNCHANGED <<jobs, tasks, isInitialized>>]_vars

\* A task threw and the insert of its error row failed: the run is over,
\* nothing is in job_logs, and the job's task is still started
C33_Witness ==
  \E r \in DOMAIN cron.runs :
    /\ cron.runs[r].at = "done"
    /\ cron.runs[r].status = "error"
    /\ \A row \in cron.logs : row.run # r
    /\ tasks[cron.runs[r].task].running

\* C34: if initializeBullMQJobs returns false, no BullMQ repeatable job has
\* been added and no BullMQ worker processes the scheduled-jobs queue, also
\* after a failure part-way through scheduling the jobs.
C34_FalseMeansNothingScheduled ==
  bull.returned = "false" => bull.repeat = {} /\ bull.worker # "started"

\* C38: initializeBullMQJobs adds a repeatable job for a job name exactly
\* when the enabled setting loaded for it is true, with the stored interval
\* when there is one and the default schedule otherwise; a job whose
\* settings cannot be loaded is not scheduled.
C38_ScheduledWhenEnabled ==
  \A k \in DOMAIN jobConfigs :
    LET config == jobConfigs[k]
        added == {j \in bull.repeat : j.name = config.name}
    IN /\ config.name \notin DOMAIN bull.loaded => added = {}
       /\ (config.name \in DOMAIN bull.loaded /\ bull.threw # config.name)
            => LET dbSettings == bull.loaded[config.name]
                   stored == dbSettings.interval
               IN /\ added # {} <=> dbSettings.enabled = JsBoolean("true")
                  /\ dbSettings.failed => added = {}
                  /\ \A j \in added :
                       /\ j.pattern =
                            IF stored.type = "string" /\ stored.value # ""
                            THEN stored.value ELSE config.defaultSchedule
                       /\ j.priority = config.priority
                  /\ Cardinality(added) <= 1

\* The call returned true with one job scheduled on its stored interval, one
\* on its default schedule, and one whose settings could not be loaded
C38_Witness ==
  /\ bull.returned = "true"
  /\ \E j \in bull.repeat : j.pattern = "*/5 * * * *"
  /\ \E j \in bull.repeat, k \in DOMAIN jobConfigs :
       j.name = jobConfigs[k].name /\ j.pattern = jobConfigs[k].defaultSchedule
  /\ \E n \in DOMAIN bull.loaded : bull.loaded[n].failed

\* The jobs a returned record counts
CountedJobs(s) == s.waiting + s.active + s.completed + s.failed + s.delayed

\* C35: the statistics getWorkflowQueueStats returns are a consistent
\* snapshot even while workers move jobs between states: every job retained
\* in the queue is counted in exactly one of waiting, active, completed,
\* failed, delayed. (Stated for the calls during which no job is added.)
C35_StatsAreSnapshot ==
  [][ (/\ stats.pc = Len(StatsFields)
       /\ stats'.pc = 0
       /\ stats.jobsAtCall = Len(wfJobs))
        => CountedJobs(stats') = Len(wfJobs) ]_vars

\* C36: after any sequence of tracked operations the counts GET
\* /api/twitter/usage reports for one operation type are monotone in the
\* window length: last_15_minutes <= last_hour <= last_24_hours <=
\* last_month.  Stated for a GET answered while no operation is in progress.
C36_CountsMonotone ==
  [][ (lastGet' # lastGet /\ \A k \in Slots : trackers[k] = Idle) =>
        \A w \in DOMAIN Windows \ {Len(Windows)} :
          /\ lastGet'.postUsage[w] <= lastGet'.postUsage[w + 1]
          /\ lastGet'.readUsage[w] <= lastGet'.readUsage[w + 1] ]_vars

\* C39: each of POST /api/jobs/control, /api/automation/settings,
\* /api/setup/save and /api/twitter/usage answers a request without an
\* authenticated session with 401 and changes no state: scheduler
\* registrations, stored settings, stored credentials, usage counters.
\* (A request the rate limit turns away before the session is looked at may
\* be answered with 429.)
C39_NoSessionNoChange ==
  [][ (\/ ctl' # ctl /\ ~ctl'.session
       \/ api'.last # api.last /\ ~api'.last.session)
        => /\ ctl' # ctl => ctl'.status = 401
           /\ api'.last # api.last => api'.last.status \in {401, 429}
           /\ UNCHANGED <<jobs, tasks, isInitialized>>
           /\ api'.settings = api.settings
           /\ api'.credentials = api.credentials
           /\ UNCHANGED <<usageRows, trackers>> ]_vars

====
